---- MODULE Spec2Model ----
(***************************************************************************)
(* Model of the interactive command-execution subsystem of agent-node:     *)
(*   function_ssh/sshClient.py     SSHClientFactory, SSHConnectionPool     *)
(*   function_ssh/SSHDeviceBase.py SSHDeviceBase (handshake, exec_commands)*)
(*   function_ssh/DebianDevice.py  DebianDevice (prompt grammar, cycle)    *)
(*                                                                         *)
(* Text is a sequence of tokens.  A token is one character or one atomic   *)
(* piece of text that the grammar looks for:                               *)
(*   "SP" " "   "NL" "\n"   "CR" "\r"   "TAB" "\t"   "BEL" "\x07"         *)
(*   ":~$"        the end of a debian prompt                               *)
(*   "DENIED"     the error marker "Permission denied"                     *)
(*   "[Y/N]"      the confirmation marker                                  *)
(*   "#" ">" "^"  the characters themselves                                *)
(*   "]?" "yes/no]:"  the ends of the questions a device asks              *)
(*   "MARKER" "INCOMPLETE" "AUTHFAIL" "UNKNOWN" "ERROR"                    *)
(*                the texts "at '^' marker", "Incomplete command",         *)
(*                "authorization failed", "unknown command", "error"       *)
(*   any other string is ordinary printable text ("ls", "u", "out", ...)   *)
(***************************************************************************)
EXTENDS Integers, Sequences, FiniteSets, TLC

(***************************************************************************)
(* Bounds of the model.                                                    *)
(***************************************************************************)
\* max_connections_per_host is a constructor parameter of SSHConnectionPool
\* (sshClient.py:112, default 4); the model runs the pool with this value.
MaxConnectionsPerHost == 2
\* Longest command list a caller passes to run.
MaxCmds == 2
\* Number of calls of run the single caller makes in one behaviour.
MaxRuns == 1
\* get_connection: retry = 30.  The model runs the scan loop with this budget
\* of passes.
ScanRetries == 2

(***************************************************************************)
(* Program constants.                                                      *)
(***************************************************************************)
\* execute_command: retry = 3
RunRetries == 3
\* _init_terminal: if retry >= 3: break
InitRetryLimit == 3

(***************************************************************************)
(* Python str helpers on token sequences.                                  *)
(***************************************************************************)
Whitespace == {"SP", "NL", "CR", "TAB"}

\* str.strip(): drop leading and trailing whitespace.
strip(s) ==
    LET keep == {i \in 1..Len(s) : s[i] \notin Whitespace}
    IN  IF keep = {} THEN <<>>
        ELSE LET lo == CHOOSE i \in keep : \A j \in keep : i <= j
                 hi == CHOOSE i \in keep : \A j \in keep : j <= i
             IN  SubSeq(s, lo, hi)

\* s.split("\n")[-1]: the text after the last newline.
last_line(s) ==
    LET nls == {i \in 1..Len(s) : s[i] = "NL"}
    IN  IF nls = {} THEN s
        ELSE LET hi == CHOOSE i \in nls : \A j \in nls : j <= i
             IN  SubSeq(s, hi + 1, Len(s))

\* old occurs in s at position i.
occurs_at(s, old, i) ==
    /\ i + Len(old) - 1 <= Len(s)
    /\ \A k \in 1..Len(old) : s[i + k - 1] = old[k]

\* `old in s`
contains(s, old) == \E i \in 1..Len(s) : occurs_at(s, old, i)

\* s.replace(old, ""): every non-overlapping occurrence, left to right.
RECURSIVE remove_from(_, _, _)
remove_from(s, old, i) ==
    IF i > Len(s) THEN <<>>
    ELSE IF Len(old) > 0 /\ occurs_at(s, old, i)
         THEN remove_from(s, old, i + Len(old))
         ELSE <<s[i]>> \o remove_from(s, old, i + 1)

remove_all(s, old) == remove_from(s, old, 1)

\* bytes.decode(...).replace("\r", "")
decode(chunk) == remove_all(chunk, <<"CR">>)

\* "\n".join(values)
RECURSIVE join_nl(_)
join_nl(values) ==
    IF Len(values) = 0 THEN <<>>
    ELSE IF Len(values) = 1 THEN values[1]
    ELSE values[1] \o <<"NL">> \o join_nl(Tail(values))

(***************************************************************************)
(* SSHDeviceBase._remove_control_characters.  For the pattern of the ANSI  *)
(* pass a token is one character: "ESC" is \x1B, "DEL" is \x7F, "1" a      *)
(* digit, "m" a letter.  A token of ordinary text (several characters)     *)
(* never follows "ESC" in the texts of the model, and the pattern does not *)
(* match there.                                                            *)
(***************************************************************************)
\* [@-Z\\-_] under re.I: "@", a letter, "\", "]", "^", "_"
AnsiSingle == {"@", "m", "K", "\\", "]", "^", "_"}
\* [0-?]: a digit, ":", ";", "<", "=", ">", "?"
AnsiParam == {"0", "1", ";", ">"}
\* [ -/]: a space, "!", "#", "$", ...
AnsiIntermediate == {"SP", "#"}
\* [@-~]: what AnsiSingle holds, and "[", "`", "{", "|", "}", "~"
AnsiFinal == AnsiSingle \cup {"[", "|"}

\* The position after the longest run of tokens of class from position i.
RECURSIVE skip_while(_, _, _)
skip_while(text, class, i) ==
    IF i <= Len(text) /\ text[i] \in class THEN skip_while(text, class, i + 1) ELSE i

\* The position after the match of \x1B(?:[@-Z\\-_]|\[[0-?]*[ -/]*[@-~]) that
\* starts at position i, or 0 when there is none.  The three classes of the
\* second alternative are disjoint, so the greedy match is the only one.
ansi_match_end(text, i) ==
    IF text[i] # "ESC" \/ i + 1 > Len(text) THEN 0
    ELSE IF text[i + 1] \in AnsiSingle THEN i + 2
    ELSE IF text[i + 1] = "["
         THEN LET f == skip_while(text, AnsiIntermediate,
                                  skip_while(text, AnsiParam, i + 2))
              IN  IF f <= Len(text) /\ text[f] \in AnsiFinal THEN f + 1 ELSE 0
         ELSE 0

\* ansi_escape.sub('', text), from position i.
RECURSIVE ansi_sub(_, _)
ansi_sub(text, i) ==
    IF i > Len(text) THEN <<>>
    ELSE IF ansi_match_end(text, i) # 0 THEN ansi_sub(text, ansi_match_end(text, i))
    ELSE <<text[i]>> \o ansi_sub(text, i + 1)

\* The tokens c with ord(c) < 32 that are neither "\n" nor "\t".
ControlChars == {"CR", "BEL", "ESC"}

remove_control_characters(text) ==
    SelectSeq(ansi_sub(text, 1), LAMBDA c : c \notin ControlChars)

(***************************************************************************)
(* DebianDevice: prompt grammar.                                           *)
(***************************************************************************)
\* self.error_prompts = ["found at '^' position", "Permission denied"]
DebianErrorPrompts == {<<"CARET">>, <<"DENIED">>}
\* self.next_prompts = ["[Y/N]"]
DebianNextPrompts == {<<"[Y/N]">>}

\* re.compile(r"(.+?:~[$])$").findall(line): the scan starts at the first
\* character and the lazy .+? grows until ":~$" ends the line, so the only
\* match is the whole line, and there is one iff the line ends with ":~$"
\* and has a character before it.
debian_findall(line) ==
    IF Len(line) >= 2 /\ line[Len(line)] = ":~$" THEN <<line>> ELSE <<>>

(***************************************************************************)
(* A session object: SSHDeviceBase fields.                                 *)
(*   ssh_shell      "open"   a channel that accepts writes                 *)
(*                  "closed" a channel the peer has closed: sendall raises *)
(*                  "none"   self.ssh_shell is None (after close())        *)
(*   current_prompt <<>> stands for None                                   *)
(* A device behaviour for one send-cycle is a script: the sequence of      *)
(* chunks recv() returns.  <<>> is b"" (the channel has closed); when the  *)
(* script is used up the device stays silent and recv() raises             *)
(* socket.timeout.                                                         *)
(***************************************************************************)
\* One sendall(): the place in the code that writes, and the text written.
Write(site, data) == [site |-> site, data |-> data]

\* A read that raises socket.timeout.
Timeout == <<"TIMEOUT">>

\* Mutant of NoRespond: a cycle that ends without a prompt returns what a
\* command without output returns.
NoRespondEmpty == [kind |-> "ok", prompt |-> <<>>, detail |-> <<>>]

NoRespond == [kind |-> "none", prompt |-> <<>>, detail |-> <<>>]

\* DebianDevice._send_command, the while True loop from its i-th recv().
RECURSIVE debian_recv_loop(_, _, _, _, _, _)
debian_recv_loop(sess, command, script, i, cmd_cache, wrote) ==
    IF i > Len(script) \/ script[i] = Timeout
    THEN \* recv raises socket.timeout: except ... break
         [respond |-> NoRespond, wrote |-> wrote, sess |-> sess, raised |-> FALSE]
    ELSE IF script[i] = <<>>
    THEN \* if line: ... else: break
         [respond |-> NoRespond, wrote |-> wrote,
          sess |-> [sess EXCEPT !.ssh_shell = "closed"], raised |-> FALSE]
    ELSE LET cache  == cmd_cache \o decode(script[i])
             prompt == debian_findall(last_line(strip(cache)))
         IN  IF Len(prompt) > 0
             THEN LET cut == remove_all(cache, prompt[1])
                      s2  == [sess EXCEPT !.current_prompt = prompt[1]]
                  IN  IF \E e \in DebianErrorPrompts : contains(cut, e)
                      THEN [respond |-> [kind |-> "rejected", prompt |-> <<>>,
                                         detail |-> strip(cut)],
                            wrote |-> wrote, sess |-> s2, raised |-> FALSE]
                      ELSE [respond |-> [kind |-> "ok", prompt |-> prompt[1],
                                         detail |-> strip(cut)],
                            wrote |-> wrote, sess |-> s2, raised |-> FALSE]
             ELSE LET answer == IF command \in {<<"quit">>, <<"return">>}
                                THEN Write("answer", <<"n", "NL">>)
                                ELSE Write("answer", <<"y", "NL">>)
                      w2 == IF \E n \in DebianNextPrompts : contains(cache, n)
                            THEN Append(wrote, answer) ELSE wrote
                  IN  debian_recv_loop(sess, command, script, i + 1, cache, w2)

\* DebianDevice._send_command.  sendall on a channel that is None or closed
\* raises (AttributeError, OSError) and the write is outside the try.
debian_send_command(sess, command, script) ==
    IF sess.ssh_shell # "open"
    THEN [respond |-> NoRespond, wrote |-> <<>>, sess |-> sess, raised |-> TRUE]
    ELSE debian_recv_loop(sess, command, script, 1, <<>>,
                          <<Write("command", command \o <<"NL">>)>>)

\* DebianDevice._new_terminal: pass
debian_new_terminal(sess) == [sess |-> sess, wrote |-> <<>>, raised |-> FALSE]

\* DebianDevice._set_terminal: pass
debian_set_terminal(sess) == [sess |-> sess, wrote |-> <<>>, raised |-> FALSE]

(***************************************************************************)
(* CiscoXRDevice: prompt grammar and send-cycle.                           *)
(***************************************************************************)
\* self.error_prompts = ["at '^' marker", "Incomplete command", "authorization failed"]
CiscoXRErrorPrompts == {<<"MARKER">>, <<"INCOMPLETE">>, <<"AUTHFAIL">>}

\* The tokens that are not made of the characters [a-zA-Z0-9_()/:.+-].
NotPromptChars ==
    {"SP", "NL", "CR", "TAB", "BEL", "ESC", "DEL", "#", ">", "^", "[", "]?", "yes/no]:",
     "[Y/N]", ":~$"}

\* re.compile(r"[a-zA-Z0-9_()/:.+-]+?#$").findall(line): the line ends with
\* "#", and the match is the longest run of characters of the class before it,
\* which is not empty.
cisco_xr_findall(line) ==
    LET n == Len(line) IN
    IF n >= 2 /\ line[n] = "#" /\ line[n - 1] \notin NotPromptChars
    THEN LET starts == {i \in 1..(n - 1) : \A j \in i..(n - 1) : line[j] \notin NotPromptChars}
             lo == CHOOSE i \in starts : \A j \in starts : i <= j
         IN  <<SubSeq(line, lo, n)>>
    ELSE <<>>

\* Mutant of endswith: the text is looked for anywhere in s.
endswith_anywhere(s, tail) == contains(s, tail)

\* s.endswith(tail)
endswith(s, tail) ==
    Len(s) >= Len(tail) /\ SubSeq(s, Len(s) - Len(tail) + 1, Len(s)) = tail

\* CiscoXRDevice._send_command, the while True loop from its i-th recv().
RECURSIVE cisco_xr_recv_loop(_, _, _, _, _, _)
cisco_xr_recv_loop(sess, command, script, i, cmd_cache, wrote) ==
    IF i > Len(script) \/ script[i] = Timeout
    THEN [respond |-> NoRespond, wrote |-> wrote, sess |-> sess, raised |-> FALSE]
    ELSE IF script[i] = <<>>
    THEN [respond |-> NoRespond, wrote |-> wrote,
          sess |-> [sess EXCEPT !.ssh_shell = "closed"], raised |-> FALSE]
    ELSE LET cache  == cmd_cache \o decode(script[i])
             prompt == cisco_xr_findall(last_line(strip(cache)))
         IN  IF Len(prompt) > 0
             THEN LET cut == remove_all(cache, prompt[1])
                      s2  == [sess EXCEPT !.current_prompt = prompt[1]]
                  IN  IF \E e \in CiscoXRErrorPrompts : contains(cut, e)
                      THEN [respond |-> [kind |-> "rejected", prompt |-> <<>>,
                                         detail |-> strip(cut)],
                            wrote |-> wrote, sess |-> s2, raised |-> FALSE]
                      ELSE [respond |-> [kind |-> "ok", prompt |-> prompt[1],
                                         detail |-> strip(cut)],
                            wrote |-> wrote, sess |-> s2, raised |-> FALSE]
             ELSE LET w1 == IF endswith(strip(cache), <<"]?">>)
                            THEN Append(wrote, Write("answer", <<"NL">>)) ELSE wrote
                      w2 == IF endswith(strip(cache), <<"yes/no]:">>)
                            THEN Append(w1, Write("answer",
                                     IF command \in {<<"exit">>, <<"end">>}
                                     THEN <<"no", "NL">> ELSE <<"yes", "NL">>))
                            ELSE w1
                  IN  cisco_xr_recv_loop(sess, command, script, i + 1, cache, w2)

\* CiscoXRDevice._send_command
cisco_xr_send_command(sess, command, script) ==
    IF sess.ssh_shell # "open"
    THEN [respond |-> NoRespond, wrote |-> <<>>, sess |-> sess, raised |-> TRUE]
    ELSE cisco_xr_recv_loop(sess, command, script, 1, <<>>,
                            <<Write("command", command \o <<"NL">>)>>)

(***************************************************************************)
(* JuniperDevice: prompt grammar and send-cycle.                           *)
(***************************************************************************)
\* re.compile(r"(?:.+?#$)|(?:.+?>$)").findall(line): the match starts at the
\* first character, so it is the whole line, and there is one iff the line
\* ends with "#" or ">" and has a character before it.
juniper_findall(line) ==
    IF Len(line) >= 2 /\ line[Len(line)] \in {"#", ">"} THEN <<line>> ELSE <<>>

\* re.compile(r"sho?w?\s+").findall(command) is not empty, for the commands of
\* the model: a word "sh", "sho" or "show" followed by whitespace.
juniper_is_show(command) ==
    \E i \in 1..(Len(command) - 1) :
        command[i] \in {"sh", "sho", "show"} /\ command[i + 1] \in Whitespace

\* if show_reg matches and "no-more" not in command: command += "|no-more"
juniper_command(command) ==
    IF juniper_is_show(command) /\ ~contains(command, <<"no-more">>)
    THEN command \o <<"|", "no-more">>
    ELSE command

\* JuniperDevice._send_command, the while True loop from its i-th recv().
\* The detail of an accepted command is returned as it is, not stripped.
RECURSIVE juniper_recv_loop(_, _, _, _, _, _)
juniper_recv_loop(sess, command, script, i, cmd_cache, wrote) ==
    IF i > Len(script) \/ script[i] = Timeout
    THEN [respond |-> NoRespond, wrote |-> wrote, sess |-> sess, raised |-> FALSE]
    ELSE IF script[i] = <<>>
    THEN [respond |-> NoRespond, wrote |-> wrote,
          sess |-> [sess EXCEPT !.ssh_shell = "closed"], raised |-> FALSE]
    ELSE LET cache  == cmd_cache \o decode(script[i])
             prompt == juniper_findall(last_line(strip(cache)))
         IN  IF Len(prompt) > 0
             THEN LET cut == remove_all(cache, prompt[1])
                      s2  == [sess EXCEPT !.current_prompt = prompt[1]]
                  IN  IF \/ /\ contains(cut, <<"^">>)
                            /\ contains(cut, <<"UNKNOWN">>) \/ contains(cut, <<"ERROR">>)
                         \/ contains(cut, <<"AUTHFAIL">>)
                      THEN [respond |-> [kind |-> "rejected", prompt |-> <<>>,
                                         detail |-> strip(cut)],
                            wrote |-> wrote, sess |-> s2, raised |-> FALSE]
                      ELSE [respond |-> [kind |-> "ok", prompt |-> prompt[1],
                                         detail |-> cut],
                            wrote |-> wrote, sess |-> s2, raised |-> FALSE]
             ELSE LET w1 == IF endswith(strip(cache), <<"]?">>)
                            THEN Append(wrote, Write("answer", <<"NL">>)) ELSE wrote
                      w2 == IF endswith(strip(cache), <<"yes/no]:">>)
                            THEN Append(w1, Write("answer", <<"yes", "NL">>))
                            ELSE w1
                  IN  juniper_recv_loop(sess, command, script, i + 1, cache, w2)

\* JuniperDevice._send_command
juniper_send_command(sess, command, script) ==
    IF sess.ssh_shell # "open"
    THEN [respond |-> NoRespond, wrote |-> <<>>, sess |-> sess, raised |-> TRUE]
    ELSE juniper_recv_loop(sess, juniper_command(command), script, 1, <<>>,
                           <<Write("command", juniper_command(command) \o <<"NL">>)>>)

(***************************************************************************)
(* Dispatch on the device class of the session.                            *)
(***************************************************************************)
send_command(sess, command, script) ==
    CASE sess.vendor = "cisco_xr" -> cisco_xr_send_command(sess, command, script)
      [] sess.vendor = "juniper"  -> juniper_send_command(sess, command, script)
      [] OTHER                    -> debian_send_command(sess, command, script)

\* The prompt line of the device.
DevicePrompt(vendor) ==
    CASE vendor = "cisco_xr" -> <<"r", "#">>
      [] vendor = "juniper"  -> <<"r", ">">>
      [] OTHER               -> <<"u", ":~$">>

\* CiscoXRDevice._set_terminal: the device answers "terminal length 0" with
\* script; a rejection raises ValueError, no answer at all is let pass.
cisco_xr_set_terminal(sess, script) ==
    LET answered(r) == [sess |-> r.sess, wrote |-> r.wrote,
                        raised |-> r.raised \/ r.respond.kind = "rejected"]
    IN  answered(cisco_xr_send_command(sess, <<"terminal", "SP", "length", "SP", "0">>,
                                       script))

\* re.compile(r"[a-zA-Z0-9_()/:.+-]+?\(config.*?\)#$").findall(prompt): the
\* prompt of a configuration view, "(config)" standing for "(config...)".
config_findall(prompt) ==
    LET n == Len(prompt) IN
    IF /\ n >= 3 /\ prompt[n] = "#"
       /\ \E i \in 2..(n - 1) :
              /\ prompt[i] = "(config)"
              /\ \A j \in 1..(i - 1) : prompt[j] \notin NotPromptChars
              /\ \A j \in i..(n - 1) : prompt[j] # "NL"
    THEN <<prompt>> ELSE <<>>

\* status_init and status_enable have one match each: the prompt is that of
\* a configuration view.
in_config(prompt) ==
    Len(cisco_xr_findall(prompt)) = 1 /\ Len(config_findall(prompt)) = 1

\* CiscoXRDevice._new_terminal, the while loop from its n-th pass.  ends[n]
\* is how the device answers the n-th "end"; a device whose answers are used
\* up is silent.  Against a silent device a pass writes "end", its read
\* times out, current_prompt stays as it is and the condition of the loop
\* holds again: the loop does not end (hangs).
RECURSIVE config_new_terminal_loop(_, _, _, _)
config_new_terminal_loop(sess, ends, n, wrote) ==
    IF ~in_config(sess.current_prompt)
    THEN [sess |-> sess, wrote |-> wrote, raised |-> FALSE, hangs |-> FALSE]
    ELSE IF sess.ssh_shell # "open"
    THEN [sess |-> sess, wrote |-> wrote, raised |-> TRUE, hangs |-> FALSE]
    ELSE IF n > Len(ends)
    THEN [sess |-> sess, wrote |-> Append(wrote, Write("command", <<"end", "NL">>)),
          raised |-> FALSE, hangs |-> TRUE]
    ELSE LET ended(r) ==
                 IF r.raised
                 THEN [sess |-> r.sess, wrote |-> wrote \o r.wrote, raised |-> TRUE,
                       hangs |-> FALSE]
                 ELSE config_new_terminal_loop(r.sess, ends, n + 1, wrote \o r.wrote)
         IN  ended(send_command(sess, <<"end">>, ends[n]))

\* CiscoXRDevice._new_terminal and JuniperDevice._new_terminal (the same
\* code): findall on a current_prompt of None raises TypeError; in a
\* configuration view "end" is sent until the prompt is that of the initial
\* view.  The devices the callers of the pool meet answer "end" with its echo
\* and the plain prompt, so the loop body runs once.
config_new_terminal(sess) ==
    IF sess.current_prompt = <<>>
    THEN [sess |-> sess, wrote |-> <<>>, raised |-> TRUE]
    ELSE LET ended(r) == [sess |-> r.sess, wrote |-> r.wrote, raised |-> r.raised]
         IN  ended(config_new_terminal_loop(
                       sess, <<<<<<"end", "NL">> \o DevicePrompt(sess.vendor)>>>>, 1, <<>>))

new_terminal(sess) ==
    IF sess.vendor \in {"cisco_xr", "juniper"}
    THEN config_new_terminal(sess)
    ELSE debian_new_terminal(sess)

\* _set_terminal(); paging is how the device answers the command that
\* switches paging off, for the device classes that send one.
set_terminal(sess, paging) ==
    IF sess.vendor = "cisco_xr"
    THEN cisco_xr_set_terminal(sess, paging)
    ELSE debian_set_terminal(sess)

\* re.compile(r"(.+?)>$").findall(line): the group, which leaves out ">".
juniper_init_findall(line) ==
    IF Len(line) >= 2 /\ line[Len(line)] = ">"
    THEN <<SubSeq(line, 1, Len(line) - 1)>> ELSE <<>>

\* self.init_prompt.findall(last_line)
init_prompt_findall(vendor, line) ==
    CASE vendor = "cisco_xr" -> cisco_xr_findall(line)
      [] vendor = "juniper"  -> juniper_init_findall(line)
      [] OTHER               -> debian_findall(line)

(***************************************************************************)
(* SSHDeviceBase.exec_commands.  A result map is the sequence of its       *)
(* entries in insertion order; the key "[idx]cmd" is the pair <<idx, cmd>>.*)
(***************************************************************************)
Entry(idx, cmd, value) == [key |-> <<idx, cmd>>, value |-> value]

NoneResult == [kind |-> "none", entries |-> <<>>]

\* Mutant of exec_loop: a failed command does not end the loop; the commands
\* after it are sent as well.
RECURSIVE exec_loop_no_break(_, _, _, _, _, _, _)
exec_loop_no_break(sess, commands, scripts, pos, error_flag, result, wrote) ==
    IF pos > Len(commands)
    THEN [result |-> [kind |-> "map", entries |-> result], wrote |-> wrote, sess |-> sess]
    ELSE LET sent(i, r) ==
                 IF r.raised
                 THEN [result |-> NoneResult, wrote |-> wrote \o r.wrote, sess |-> r.sess]
                 ELSE exec_loop_no_break(r.sess, commands, scripts, pos + 1, FALSE,
                          Append(result,
                                 Entry(pos - 1, i,
                                       IF r.respond.kind = "ok"
                                       THEN remove_control_characters(strip(r.respond.detail))
                                       ELSE <<"failed">>)),
                          wrote \o r.wrote)
         IN  sent(strip(commands[pos]), send_command(sess, strip(commands[pos]), scripts[pos]))

\* Mutant of exec_loop: the commands of the batch are written one after the
\* other before the first answer is read.
exec_loop_pipelined(sess, commands, scripts, pos, error_flag, result, wrote) ==
    LET ahead(r) ==
            [r EXCEPT !.wrote = SelectSeq(r.wrote, LAMBDA x : x.site = "command")
                                    \o SelectSeq(r.wrote, LAMBDA x : x.site # "command")]
    IN  ahead(exec_loop_no_break(sess, commands, scripts, pos, error_flag, result, wrote))

\* for idx, i in enumerate(commands): ... from the element at position pos
\* (idx = pos - 1).
RECURSIVE exec_loop(_, _, _, _, _, _, _)
exec_loop(sess, commands, scripts, pos, error_flag, result, wrote) ==
    IF pos > Len(commands)
    THEN [result |-> [kind |-> "map", entries |-> result], wrote |-> wrote, sess |-> sess]
    ELSE LET \* the body of the loop for the command i, r being what
             \* self._send_command(i) does
             sent(i, r) ==
                 IF r.raised
                 THEN \* except Exception: log, return None
                      [result |-> NoneResult, wrote |-> wrote \o r.wrote, sess |-> r.sess]
                 ELSE IF r.respond.kind = "none"
                 THEN [result |-> [kind |-> "map",
                                   entries |-> Append(result, Entry(pos - 1, i, <<"failed">>))],
                       wrote |-> wrote \o r.wrote, sess |-> r.sess]
                 ELSE IF r.respond.kind = "rejected"
                 THEN [result |-> [kind |-> "map",
                                   entries |-> Append(result,
                                       Entry(pos - 1, i, <<"failed: ">> \o
                                             remove_control_characters(strip(r.respond.detail))))],
                       wrote |-> wrote \o r.wrote, sess |-> r.sess]
                 ELSE exec_loop(r.sess, commands, scripts, pos + 1, FALSE,
                                Append(result,
                                       Entry(pos - 1, i,
                                             remove_control_characters(strip(r.respond.detail)))),
                                wrote \o r.wrote)
         IN  IF error_flag
             THEN [result |-> [kind |-> "map",
                               entries |-> Append(result,
                                   Entry(pos - 1, strip(commands[pos]), <<"failed">>))],
                   wrote |-> wrote, sess |-> sess]
             ELSE sent(strip(commands[pos]),
                       send_command(sess, strip(commands[pos]), scripts[pos]))

\* exec_commands(commands): commands is [is_list, items].
\* raised: an exception leaves exec_commands.  The body is inside try, and
\* except Exception logs and falls off the end (None), so none does.
exec_commands(sess, commands, scripts) ==
    IF ~commands.is_list
    THEN [result |-> [kind |-> "failed", entries |-> <<>>], wrote |-> <<>>, sess |-> sess,
          raised |-> FALSE]
    ELSE LET caught(r) == [result |-> r.result, wrote |-> r.wrote, sess |-> r.sess,
                           raised |-> FALSE]
             body(nt) ==
                 IF nt.raised
                 THEN [result |-> NoneResult, wrote |-> nt.wrote, sess |-> nt.sess]
                 ELSE exec_loop(nt.sess, commands.items, scripts, 1, FALSE, <<>>, nt.wrote)
         IN  caught(body(new_terminal(sess)))


(***************************************************************************)
(* Session construction: SSHDeviceBase.__init__, _establish,               *)
(* _init_terminal, close, and SSHClientFactory.create_client.              *)
(* A transport is [connect, reads]: whether connect() succeeds, and the    *)
(* script of the reads of the handshake, where <<"TIMEOUT">> is a read     *)
(* that raises socket.timeout and a used-up script is a silent device      *)
(* (every further read times out).                                         *)
(***************************************************************************)
\* Mutant of close: the session keeps its channel.
close_noop(sess) == sess

\* SSHDeviceBase.close(): ssh_shell = None, client = None
close(sess) == [sess EXCEPT !.ssh_shell = "none"]

\* SSHDeviceBase._init_terminal, the while True loop from its i-th recv().
\* A read of b"" (the channel has closed) raises nothing and adds nothing to
\* line_data; every read after it returns b"" as well, so the loop does not
\* end (hangs).
RECURSIVE init_loop(_, _, _, _, _, _)
init_loop(sess, reads, i, line_data, retry, wrote) ==
    IF i > Len(reads) \/ reads[i] = Timeout
    THEN \* except: retry += 1; if retry >= 3: break; else: sendall("\n")
         IF retry + 1 >= InitRetryLimit
         THEN [sess |-> sess, wrote |-> wrote, hangs |-> FALSE]
         ELSE init_loop(sess, reads, i + 1, line_data, retry + 1,
                        Append(wrote, Write("newline", <<"NL">>)))
    ELSE IF reads[i] = <<>>
    THEN [sess |-> [sess EXCEPT !.ssh_shell = "closed"], wrote |-> wrote, hangs |-> TRUE]
    ELSE LET data   == line_data \o decode(reads[i])
             prompt == init_prompt_findall(sess.vendor, last_line(strip(data)))
         IN  IF Len(prompt) > 0
             THEN [sess |-> [sess EXCEPT !.current_prompt = prompt[1]], wrote |-> wrote,
                   hangs |-> FALSE]
             ELSE init_loop(sess, reads, i + 1, data, retry, wrote)

\* _init_terminal: the loop, then _set_terminal() or close().
init_terminal(sess, reads, paging) ==
    LET set(r, st) == [sess |-> st.sess, raised |-> st.raised, wrote |-> r.wrote \o st.wrote,
                       hangs |-> FALSE]
        looped(r) ==
            IF r.hangs
            THEN [sess |-> r.sess, raised |-> FALSE, wrote |-> r.wrote, hangs |-> TRUE]
            ELSE IF r.sess.current_prompt # <<>>
            THEN set(r, set_terminal(r.sess, paging))
            ELSE [sess |-> close(r.sess), raised |-> FALSE, wrote |-> r.wrote,
                  hangs |-> FALSE]
    IN  looped(init_loop(sess, reads, 1, <<>>, 1, <<>>))

\* device_class(host, username, password): __init__ and _establish.
\* A failure of connect() or an exception of the handshake closes and raises.
new_device(vendor, transport) ==
    LET fresh == [vendor |-> vendor, ssh_shell |-> "none", current_prompt |-> <<>>] IN
    IF ~transport.connect
    THEN [raised |-> TRUE, sess |-> close(fresh), wrote |-> <<>>]
    ELSE LET established(it) ==
                 IF it.raised
                 THEN [raised |-> TRUE, sess |-> close(it.sess), wrote |-> it.wrote]
                 ELSE [raised |-> FALSE, sess |-> it.sess, wrote |-> it.wrote]
         IN  established(init_terminal([fresh EXCEPT !.ssh_shell = "open"],
                                       transport.reads, transport.paging))

\* SSHClientFactory.VENDOR_CLASS_MAP: the tags whose device class is modelled.
VENDOR_CLASS_MAP == {"debian", "cisco_xr", "juniper"}

\* vendor.lower(), for the tags of the model.
lower(tag) == IF tag = "Debian" THEN "debian" ELSE tag

\* Mutant of create_client: a host that is not identified, and a tag without
\* a device class, get the Debian class.
create_client_default(vendor, identified, transport) ==
    LET built(d) == [client |-> ~d.raised, sess |-> d.sess, wrote |-> d.wrote,
                     raised |-> FALSE]
    IN  built(new_device(IF vendor \in {"cisco_xr", "juniper"} THEN vendor ELSE "debian",
                         transport))

\* Mutant of create_client: without the except clause, what the constructor
\* raises leaves create_client.
create_client_no_except(vendor, identified, transport) ==
    LET v == IF vendor = "" THEN identified ELSE vendor IN
    IF v = "" \/ v \notin {"debian", "cisco_xr", "juniper"}
    THEN [client |-> FALSE, sess |-> [vendor |-> v, ssh_shell |-> "none", current_prompt |-> <<>>],
          wrote |-> <<>>, raised |-> FALSE]
    ELSE LET built(d) == [client |-> ~d.raised, sess |-> d.sess, wrote |-> d.wrote,
                          raised |-> d.raised]
         IN  built(new_device(v, transport))

\* SSHClientFactory.create_client.  identified is what _identify_vendor
\* returns for the host ("" stands for None).
\* raised: an exception leaves create_client.  The body is inside try, and
\* except Exception returns None, so none does.
create_client(vendor, identified, transport) ==
    LET v == IF vendor = "" THEN lower(identified) ELSE vendor IN
    IF v = "" \/ v \notin VENDOR_CLASS_MAP
    THEN [client |-> FALSE, sess |-> [vendor |-> v, ssh_shell |-> "none", current_prompt |-> <<>>],
          wrote |-> <<>>, raised |-> FALSE]
    ELSE LET built(d) == [client |-> ~d.raised, sess |-> d.sess, wrote |-> d.wrote,
                          raised |-> FALSE]
         IN  built(new_device(v, transport))


(***************************************************************************)
(* The callers, the inputs they pass and the devices they meet.            *)
(***************************************************************************)
Threads == {"t1", "t2"}

Hosts == {"h1"}

\* The vendor tags a caller passes: supported ones, and none.
VendorTags == {"debian", "cisco_xr", ""}

\* The commands of a caller: a blank one and one to be trimmed.
Commands == {<<"SP">>, <<"SP", "ls", "SP">>}

RECURSIVE SeqsUpTo(_, _)
SeqsUpTo(S, n) ==
    IF n = 0 THEN {<<>>}
    ELSE LET shorter == SeqsUpTo(S, n - 1)
         IN  shorter \cup {Append(q, x) : q \in {r \in shorter : Len(r) = n - 1}, x \in S}

\* What a caller passes as `commands`: a list, or something that is no list.
CommandArgs ==
    {[is_list |-> TRUE, items |-> q] : q \in SeqsUpTo(Commands, MaxCmds)}
        \cup {[is_list |-> FALSE, items |-> <<>>]}

\* What the concurrent callers pass.
PoolCommandArgs == {[is_list |-> TRUE, items |-> <<<<"SP", "ls", "SP">>>>]}

\* The prompt line of the debian device, as it arrives ("user@host:~$ ").
PromptChunk == <<"u", ":~$", "SP">>

\* How the device answers one written command:
\*   the echo, output and the prompt, in three reads;
\*   the echo, an error message and the prompt, in one read;
\*   the prompt alone (no echo, no output);
\*   a confirmation dialog, then output and the prompt;
\*   the echo, then the channel closes;
\*   nothing at all (every read times out).
DeviceScripts(command) ==
    LET echo == command \o <<"CR", "NL">> IN
    { <<echo, <<"out", "CR", "NL">>, PromptChunk>>,
      <<echo \o <<"DENIED", "NL">> \o PromptChunk>>,
      <<PromptChunk>>,
      <<echo \o <<"[Y/N]">>, <<"out", "NL">> \o PromptChunk>>,
      <<echo, <<>>>>,
      <<>> }

\* The behaviours the concurrent callers meet: output, the prompt alone, silence.
PoolDeviceScripts(command) ==
    { <<command \o <<"CR", "NL">>, <<"out", "CR", "NL">>, PromptChunk>>,
      <<PromptChunk>>,
      <<>> }

\* How a device with paging answers one written command: output in two
\* reads, an error message, nothing at all.
PagingDeviceScripts(command) ==
    { <<command \o <<"CR", "NL">>, <<"out", "NL">> \o DevicePrompt("cisco_xr")>>,
      <<command \o <<"NL", "AUTHFAIL", "NL">> \o DevicePrompt("cisco_xr")>>,
      <<>> }

\* One script for each command of a batch sent to a device of class v.
ScriptTuples(v, commands, rich) ==
    LET scripts(c) == IF ~rich THEN PoolDeviceScripts(c)
                      ELSE IF v = "cisco_xr" THEN PagingDeviceScripts(c)
                      ELSE DeviceScripts(c)
        all == UNION {scripts(commands[i]) : i \in 1..Len(commands)}
    IN  {f \in [1..Len(commands) -> all] :
            \A i \in 1..Len(commands) : f[i] \in scripts(commands[i])}

\* How the device behaves during a handshake:
\*   connect() refused;
\*   a banner and the prompt;
\*   one read times out, then the prompt arrives;
\*   a banner without a prompt, then silence;
\*   silence (every read times out).
Transports ==
    { [connect |-> FALSE, reads |-> <<>>, paging |-> <<>>],
      [connect |-> TRUE,  reads |-> <<<<"motd", "NL">>, PromptChunk>>, paging |-> <<>>],
      [connect |-> TRUE,  reads |-> <<Timeout, PromptChunk>>, paging |-> <<>>],
      [connect |-> TRUE,  reads |-> <<<<"motd", "NL">>>>, paging |-> <<>>],
      [connect |-> TRUE,  reads |-> <<>>, paging |-> <<>>] }

PoolTransports ==
    { [connect |-> FALSE, reads |-> <<>>, paging |-> <<>>],
      [connect |-> TRUE,  reads |-> <<<<"motd", "NL">>, PromptChunk>>, paging |-> <<>>],
      [connect |-> TRUE,  reads |-> <<>>, paging |-> <<>>] }

\* A device that sends paging: the handshake shows a banner and the prompt;
\* the device accepts "terminal length 0", rejects it, or does not answer it.
PagingTransports ==
    LET shown == <<<<"motd", "NL">> \o DevicePrompt("cisco_xr")>>
        echo == <<"terminal", "SP", "length", "SP", "0", "NL">>
    IN  { [connect |-> TRUE, reads |-> shown,
           paging |-> <<echo \o DevicePrompt("cisco_xr")>>],
          [connect |-> TRUE, reads |-> shown,
           paging |-> <<echo \o <<"INCOMPLETE", "NL">> \o DevicePrompt("cisco_xr")>>],
          [connect |-> TRUE, reads |-> shown, paging |-> <<>>] }

\* The devices a caller can meet for the device class v.
TransportsFor(v, rich) ==
    IF ~rich THEN PoolTransports
    ELSE IF v = "cisco_xr" THEN PagingTransports
    ELSE Transports

\* Every read of the handshake times out.
AlwaysTimesOut(transport) ==
    transport.connect /\ \A i \in 1..Len(transport.reads) : transport.reads[i] = Timeout

\* What _identify_vendor can return for a host ("" stands for None).
Identified == {"", "debian"}

(***************************************************************************)
(* State.                                                                  *)
(***************************************************************************)
VARIABLES
    hosts,        \* SSHConnectionPool.hosts: host -> [present, slots]
    sessions,     \* the device objects constructed so far; a client is an index
    pc,           \* where each caller is in execute_command / get_connection
    call,         \* the arguments of the caller's run: host, commands, vendor
    retry,        \* execute_command: retry
    scan_retry,   \* get_connection: retry
    scan_idx,     \* get_connection: idx
    conn_name,    \* get_connection: conn_name, as the index of "conn_<idx>"; -1 is ""
    client_info,  \* execute_command: client_info["tid"] as an index; -1 is None
    result,       \* execute_command: result
    ret,          \* what the caller's last run returned
    ncalls,       \* calls of run made so far by each caller
    acquires,     \* history: calls of get_connection made by the caller's run
    attempts,     \* history: how each attempt of the caller's run ended
    owed,         \* history: slots the run obtained and has not released or evicted
    fresh,        \* history: the slot in hand was bound to a session by this attempt
    wrote,        \* history: what the last exec_commands of the caller wrote
    batch,        \* history: the commands and device scripts of that exec_commands
    stale,        \* history: the sessions evicted for an empty output
    only_timeouts, \* history: every handshake so far met a device whose reads time out
    lock,         \* SSHConnectionPool.lock: the caller that holds it, or "none"
    fn_in,        \* the arguments of the function applied on its own
    fn_out        \* what that function returned

pool_vars == <<hosts, sessions, pc, call, retry, scan_retry, scan_idx, conn_name,
               client_info, result, ret, ncalls, acquires, attempts, owed, fresh,
               wrote, batch, stale, only_timeouts, lock>>

vars == <<pool_vars, fn_in, fn_out>>

\* No function is applied on its own.
NoInput == [fn |-> "none", vendor |-> "", command |-> <<>>, text |-> <<>>,
            prompt |-> <<>>, chunks |-> <<>>, paging |-> <<>>,
            identified |-> ""]

NoOutput == [done |-> FALSE, kind |-> "none", detail |-> <<>>, wrote |-> <<>>,
             prompt |-> <<>>]

NoCall == [host |-> "h1", commands |-> [is_list |-> TRUE, items |-> <<>>], vendor |-> ""]

NoReturn == [status |-> "none", msg |-> "", data |-> <<>>]

NoBatch == [vendor |-> "", commands |-> <<>>, scripts |-> <<>>]

\* Mutant of NewSlot: the lock of the new slot is not acquired.
NewSlotUnlocked == [client |-> 0, locked |-> FALSE]

\* {"tid": conn_name, "client": None, "lock": threading.Lock(), ...} with
\* client_info["lock"].acquire()
NewSlot == [client |-> 0, locked |-> TRUE]

\* self.hosts[host] = {}
NoSlots == [i \in {} |-> NewSlot]

InitPool ==
    /\ lock = "none"
    /\ hosts = [h \in Hosts |-> [present |-> FALSE, slots |-> NoSlots]]
    /\ sessions = <<>>
    /\ pc = [t \in Threads |-> "idle"]
    /\ call = [t \in Threads |-> NoCall]
    /\ retry = [t \in Threads |-> 0]
    /\ scan_retry = [t \in Threads |-> 0]
    /\ scan_idx = [t \in Threads |-> 0]
    /\ conn_name = [t \in Threads |-> -1]
    /\ client_info = [t \in Threads |-> -1]
    /\ result = [t \in Threads |-> NoneResult]
    /\ ret = [t \in Threads |-> NoReturn]
    /\ ncalls = [t \in Threads |-> 0]
    /\ acquires = [t \in Threads |-> 0]
    /\ attempts = [t \in Threads |-> <<>>]
    /\ owed = [t \in Threads |-> {}]
    /\ fresh = [t \in Threads |-> FALSE]
    /\ wrote = [t \in Threads |-> <<>>]
    /\ batch = [t \in Threads |-> NoBatch]
    /\ stale = {}
    /\ only_timeouts = TRUE

Init == InitPool /\ fn_in = NoInput /\ fn_out = NoOutput


(***************************************************************************)
(* SSHConnectionPool: the steps that run under self.lock.                  *)
(***************************************************************************)
\* self.hosts[host][conn_name] = client_info
with_slot(pool, h, idx, slot) ==
    [pool EXCEPT ![h] = [present |-> TRUE,
                         slots |-> [i \in DOMAIN pool[h].slots \cup {idx} |->
                                       IF i = idx THEN slot ELSE pool[h].slots[i]]]]

\* Mutant of release_connection: the slot is unlocked and loses its session.
release_connection_unbind(pool, h, idx) ==
    IF pool[h].present /\ idx \in DOMAIN pool[h].slots
    THEN [pool EXCEPT ![h].slots[idx] = [client |-> 0, locked |-> FALSE]]
    ELSE pool

\* Mutant of release_connection: the locks of all the slots of the host are
\* released.
release_connection_all(pool, h, idx) ==
    IF pool[h].present /\ idx \in DOMAIN pool[h].slots
    THEN [pool EXCEPT ![h].slots = [i \in DOMAIN pool[h].slots |->
                                       [pool[h].slots[i] EXCEPT !.locked = FALSE]]]
    ELSE pool

\* SSHConnectionPool.release_connection: the lock of the slot is released;
\* releasing a lock that is not held raises and is logged.
release_connection(pool, h, idx) ==
    IF pool[h].present /\ idx \in DOMAIN pool[h].slots
    THEN [pool EXCEPT ![h].slots[idx].locked = FALSE]
    ELSE pool

\* Mutant of disconnect: every slot of the host is deleted.
disconnect_all(pool, h, idx) ==
    IF pool[h].present /\ idx \in DOMAIN pool[h].slots
    THEN [pool EXCEPT ![h].slots = NoSlots]
    ELSE pool

\* Mutant of disconnect: the slot is unlocked and stays in the pool.
disconnect_keep(pool, h, idx) == release_connection(pool, h, idx)

\* SSHConnectionPool.disconnect: del self.hosts[host][conn_name]
disconnect(pool, h, idx) ==
    IF pool[h].present /\ idx \in DOMAIN pool[h].slots
    THEN [pool EXCEPT ![h].slots = [i \in DOMAIN pool[h].slots \ {idx} |-> pool[h].slots[i]]]
    ELSE pool

\* Mutant of can_take: the scan also takes a slot that has no session yet.
can_take_unbound(slot) == ~slot.locked \/ slot.client = 0

\* Mutant of can_take: the scan takes a slot without looking at its lock.
can_take_any(slot) == TRUE

\* get_connection, the scan: may the caller take the existing slot?
\* if self.hosts[host][conn_name]["lock"].locked(): continue
can_take(slot) == ~slot.locked

\* Mutant of next_pass: a pass does not use up the budget of the scan.
next_pass_free(budget) == budget

\* get_connection, the scan: while retry > 0: retry = retry - 1
next_pass(budget) == budget - 1

\* Mutant of scan_range: the scan runs one index too far.
scan_range_wide == 0..MaxConnectionsPerHost

\* get_connection, the scan: for idx in range(0, self.max_connections_per_host)
scan_range == 0..(MaxConnectionsPerHost - 1)

(***************************************************************************)
(* run_ssh_command and the entry of execute_command.                       *)
(***************************************************************************)
\* run_ssh_command: a tag outside VENDOR_CLASS_MAP is not passed on.
\* A run_ssh_command that hands every tag on as it is.
passed_vendor_always(vendor) == vendor

passed_vendor(vendor) == IF vendor \in VENDOR_CLASS_MAP THEN vendor ELSE ""

\* execute_command: the commands left by the filter of blank commands.
filter_commands(commands) ==
    LET kept == SelectSeq(commands, LAMBDA c : strip(c) # <<>>)
    IN  [i \in 1..Len(kept) |-> strip(kept[i])]

\* Mutant of Failed: the status reported is "success".
FailedAsSuccess(msg) == [status |-> "success", msg |-> msg, data |-> <<>>]

Failed(msg) == [status |-> "failed", msg |-> msg, data |-> <<>>]

Success(msg, data) == [status |-> "success", msg |-> msg, data |-> data]

\* The call of run ended with an exception, not with a result.
Raised == [status |-> "raised", msg |-> "", data |-> <<>>]

\* Mutant of lock_exit: the end of the block leaves the lock with the caller.
lock_exit_held(t) == t

\* with self.lock: the end of the block releases the lock.
lock_exit(t) == "none"

\* with self.lock: caller t runs one block; it enters when the lock is free.
WithLock(t) == lock = "none" /\ lock' = lock_exit(t)

Call(t, h, commands, vendor, limit) ==
    /\ pc[t] = "idle"
    /\ UNCHANGED <<fn_in, fn_out>>
    /\ UNCHANGED lock
    /\ ncalls[t] < limit
    /\ ncalls' = [ncalls EXCEPT ![t] = ncalls[t] + 1]
    /\ call' = [call EXCEPT ![t] = [host |-> h, commands |-> commands,
                                    vendor |-> passed_vendor(vendor)]]
    /\ acquires' = [acquires EXCEPT ![t] = 0]
    /\ attempts' = [attempts EXCEPT ![t] = <<>>]
    /\ owed' = [owed EXCEPT ![t] = {}]
    /\ IF ~commands.is_list
       THEN \* if not isinstance(commands, list): return failed
            /\ ret' = [ret EXCEPT ![t] = Failed("bad command list")]
            /\ UNCHANGED <<pc, retry>>
       ELSE /\ ret' = [ret EXCEPT ![t] = NoReturn]
            /\ retry' = [retry EXCEPT ![t] = RunRetries]
            /\ pc' = [pc EXCEPT ![t] = "loop"]
    /\ UNCHANGED <<hosts, sessions, scan_retry, scan_idx, conn_name, client_info,
                   result, fresh, wrote, batch, stale, only_timeouts>>

\* while retry > 0: retry = retry - 1; get_connection(...) up to the end of
\* its first `with self.lock` block.
Attempt(t) ==
    LET h == call[t].host IN
    /\ pc[t] = "loop"
    /\ retry[t] > 0
    /\ UNCHANGED <<fn_in, fn_out>>
    /\ WithLock(t)
    /\ retry' = [retry EXCEPT ![t] = retry[t] - 1]
    /\ acquires' = [acquires EXCEPT ![t] = acquires[t] + 1]
    /\ IF ~hosts[h].present
       THEN /\ hosts' = with_slot(hosts, h, 0, NewSlot)
            /\ conn_name' = [conn_name EXCEPT ![t] = 0]
            /\ pc' = [pc EXCEPT ![t] = "create"]
            /\ UNCHANGED <<scan_retry, scan_idx>>
       ELSE \* is_exsisted = True; retry = 30; while retry > 0: retry = retry - 1
            /\ scan_retry' = [scan_retry EXCEPT ![t] = next_pass(ScanRetries)]
            /\ scan_idx' = [scan_idx EXCEPT ![t] = 0]
            /\ conn_name' = [conn_name EXCEPT ![t] = -1]
            /\ pc' = [pc EXCEPT ![t] = "scan"]
            /\ UNCHANGED hosts
    /\ UNCHANGED <<sessions, call, client_info, result, ret, ncalls, attempts, owed,
                   fresh, wrote, batch, stale, only_timeouts>>

\* The while loop of execute_command ends: return failed.
Exhausted(t) ==
    /\ pc[t] = "loop"
    /\ retry[t] = 0
    /\ UNCHANGED <<fn_in, fn_out>>
    /\ UNCHANGED lock
    /\ ret' = [ret EXCEPT ![t] = Failed("commands failed")]
    /\ pc' = [pc EXCEPT ![t] = "idle"]
    /\ UNCHANGED <<hosts, sessions, call, retry, scan_retry, scan_idx, conn_name,
                   client_info, result, ncalls, acquires, attempts, owed, fresh,
                   wrote, batch, stale, only_timeouts>>

\* get_connection: one `with self.lock` block of the scan, for idx = scan_idx,
\* and what follows it up to the next block.
ScanStep(t) ==
    LET h == call[t].host
        idx == scan_idx[t]
        slots == hosts[h].slots
    IN
    /\ pc[t] = "scan"
    /\ UNCHANGED <<fn_in, fn_out>>
    /\ WithLock(t)
    /\ IF idx \in DOMAIN slots
       THEN IF can_take(slots[idx])
            THEN \* lock.acquire(); return self.hosts[host][conn_name]
                 /\ hosts' = [hosts EXCEPT ![h].slots[idx].locked = TRUE]
                 /\ client_info' = [client_info EXCEPT ![t] = idx]
                 /\ owed' = [owed EXCEPT ![t] = owed[t] \cup {<<h, idx>>}]
                 /\ fresh' = [fresh EXCEPT ![t] = FALSE]
                 /\ pc' = [pc EXCEPT ![t] = "got"]
                 /\ UNCHANGED <<scan_retry, scan_idx, conn_name, attempts>>
            ELSE \* continue
                 /\ IF idx + 1 \in scan_range
                    THEN /\ scan_idx' = [scan_idx EXCEPT ![t] = idx + 1]
                         /\ UNCHANGED <<scan_retry, pc, attempts, client_info>>
                    ELSE IF scan_retry[t] > 0
                    THEN \* time.sleep(1); retry = retry - 1; the next pass
                         /\ scan_retry' = [scan_retry EXCEPT ![t] = next_pass(scan_retry[t])]
                         /\ scan_idx' = [scan_idx EXCEPT ![t] = 0]
                         /\ UNCHANGED <<pc, attempts, client_info>>
                    ELSE \* if is_create is False: return None
                         /\ pc' = [pc EXCEPT ![t] = "loop"]
                         /\ client_info' = [client_info EXCEPT ![t] = -1]
                         /\ attempts' = [attempts EXCEPT ![t] = Append(attempts[t], "no slot")]
                         /\ UNCHANGED <<scan_retry, scan_idx>>
                 /\ UNCHANGED <<hosts, conn_name, owed, fresh>>
       ELSE \* a new slot, locked by the caller; is_create = True; break
            /\ hosts' = with_slot(hosts, h, idx, NewSlot)
            /\ conn_name' = [conn_name EXCEPT ![t] = idx]
            /\ pc' = [pc EXCEPT ![t] = "create"]
            /\ UNCHANGED <<scan_retry, scan_idx, client_info, owed, fresh, attempts>>
    /\ UNCHANGED <<sessions, call, retry, result, ret, ncalls, acquires, wrote, batch,
                   stale, only_timeouts>>

\* get_connection from SSHClientFactory.create_client(...) to its return.
CreateClient(t, identified, transport) ==
    LET h == call[t].host IN
    /\ pc[t] = "create"
    /\ UNCHANGED <<fn_in, fn_out>>
    /\ only_timeouts' = (only_timeouts /\ AlwaysTimesOut(transport))
    /\ \E r \in {create_client(call[t].vendor, identified, transport)} :
       IF r.raised
       THEN \* neither get_connection nor execute_command has a try
            /\ ret' = [ret EXCEPT ![t] = Raised]
            /\ pc' = [pc EXCEPT ![t] = "idle"]
            /\ attempts' = [attempts EXCEPT ![t] = Append(attempts[t], "raised")]
            /\ UNCHANGED <<sessions, hosts, owed, fresh, client_info, lock>>
       ELSE IF r.client /\ conn_name[t] # -1
       THEN \* with self.lock: self.hosts[host][conn_name]["client"] = client;
            \* return the slot
            /\ WithLock(t)
            /\ sessions' = Append(sessions, r.sess)
            /\ hosts' = [hosts EXCEPT ![h].slots[conn_name[t]].client = Len(sessions) + 1]
            /\ client_info' = [client_info EXCEPT ![t] = conn_name[t]]
            /\ owed' = [owed EXCEPT ![t] = owed[t] \cup {<<h, conn_name[t]>>}]
            /\ fresh' = [fresh EXCEPT ![t] = TRUE]
            /\ pc' = [pc EXCEPT ![t] = "got"]
            /\ UNCHANGED <<attempts, ret>>
       ELSE \* return None
            /\ pc' = [pc EXCEPT ![t] = "loop"]
            /\ client_info' = [client_info EXCEPT ![t] = -1]
            /\ attempts' = [attempts EXCEPT ![t] = Append(attempts[t], "no client")]
            /\ UNCHANGED <<sessions, hosts, owed, fresh, ret, lock>>
    /\ UNCHANGED <<call, retry, scan_retry, scan_idx, conn_name, result, ncalls,
                   acquires, wrote, batch, stale>>

\* execute_command from `if client_info:` (true) to the return of
\* exec_commands, or to the end of the attempt where there is none.
UseConnection(t, scripts) ==
    LET h == call[t].host
        idx == client_info[t]
        client == hosts[h].slots[idx].client
        cmds == filter_commands(call[t].commands.items)
    IN
    /\ pc[t] = "got"
    /\ UNCHANGED <<fn_in, fn_out>>
    /\ IF client = 0
       THEN \* else: self.disconnect(...)
            /\ WithLock(t)
            /\ hosts' = disconnect(hosts, h, idx)
            /\ owed' = [owed EXCEPT ![t] = owed[t] \ {<<h, idx>>}]
            /\ attempts' = [attempts EXCEPT ![t] = Append(attempts[t], "no session")]
            /\ pc' = [pc EXCEPT ![t] = "loop"]
            /\ UNCHANGED <<sessions, result, ret, wrote, batch>>
       ELSE IF Len(cmds) = 0
       THEN \* release_connection; return success, "command list is empty"
            /\ WithLock(t)
            /\ hosts' = release_connection(hosts, h, idx)
            /\ owed' = [owed EXCEPT ![t] = owed[t] \ {<<h, idx>>}]
            /\ attempts' = [attempts EXCEPT ![t] = Append(attempts[t], "no commands")]
            /\ ret' = [ret EXCEPT ![t] = Success("command list is empty", <<>>)]
            /\ pc' = [pc EXCEPT ![t] = "idle"]
            /\ UNCHANGED <<sessions, result, wrote, batch>>
       ELSE \E r \in {exec_commands(sessions[client], [is_list |-> TRUE, items |-> cmds],
                                     scripts)} :
                /\ sessions' = [sessions EXCEPT ![client] = r.sess]
                /\ result' = [result EXCEPT ![t] = r.result]
                /\ wrote' = [wrote EXCEPT ![t] = r.wrote]
                /\ batch' = [batch EXCEPT ![t] = [vendor |-> sessions[client].vendor,
                                                   commands |-> cmds, scripts |-> scripts]]
                /\ IF r.raised
                   THEN \* execute_command has no try
                        /\ ret' = [ret EXCEPT ![t] = Raised]
                        /\ pc' = [pc EXCEPT ![t] = "idle"]
                   ELSE /\ pc' = [pc EXCEPT ![t] = "post"]
                        /\ UNCHANGED ret
                /\ UNCHANGED <<hosts, owed, attempts, lock>>
    /\ UNCHANGED <<call, retry, scan_retry, scan_idx, conn_name, client_info, ncalls,
                   acquires, fresh, stale, only_timeouts>>

\* [entry["value"] for each entry], as result.values()
values(entries) == [i \in 1..Len(entries) |-> entries[i].value]

\* Mutant of joined_empty: a result map with a failed entry counts as empty.
joined_empty_on_failure(entries) ==
    \E i \in 1..Len(entries) : Len(entries[i].value) > 0 /\ entries[i].value[1] = "failed: "

\* Mutant of joined_empty: no output counts as empty.
joined_empty_never(entries) == FALSE

\* "\n".join(result.values()).strip() == ""
joined_empty(entries) == strip(join_nl(values(entries))) = <<>>

\* execute_command from the return of exec_commands to the end of the attempt.
Finish(t) ==
    LET h == call[t].host
        idx == client_info[t]
    IN
    /\ pc[t] = "post"
    /\ UNCHANGED <<fn_in, fn_out>>
    /\ IF result[t].kind \in {"none", "failed"}
       THEN \* logger.warning(...) and nothing else
            /\ attempts' = [attempts EXCEPT ![t] = Append(attempts[t], "no result")]
            /\ pc' = [pc EXCEPT ![t] = "loop"]
            /\ UNCHANGED <<hosts, sessions, owed, ret, stale, lock>>
       ELSE IF joined_empty(result[t].entries)
       THEN \* self.disconnect(...): the entry of the slot is deleted, and
            \* nothing is called on the device object it held
            /\ WithLock(t)
            /\ hosts' = disconnect(hosts, h, idx)
            /\ UNCHANGED sessions
            /\ stale' = stale \cup {hosts[h].slots[idx].client}
            /\ owed' = [owed EXCEPT ![t] = owed[t] \ {<<h, idx>>}]
            /\ attempts' = [attempts EXCEPT ![t] = Append(attempts[t], "stale")]
            /\ pc' = [pc EXCEPT ![t] = "loop"]
            /\ UNCHANGED ret
       ELSE \* self.release_connection(...); return success
            /\ WithLock(t)
            /\ hosts' = release_connection(hosts, h, idx)
            /\ owed' = [owed EXCEPT ![t] = owed[t] \ {<<h, idx>>}]
            /\ attempts' = [attempts EXCEPT ![t] = Append(attempts[t], "output")]
            /\ ret' = [ret EXCEPT ![t] = Success("commands executed", result[t].entries)]
            /\ pc' = [pc EXCEPT ![t] = "idle"]
            /\ UNCHANGED <<sessions, stale>>
    /\ result' = [result EXCEPT ![t] = NoneResult]
    /\ wrote' = [wrote EXCEPT ![t] = <<>>]
    /\ batch' = [batch EXCEPT ![t] = NoBatch]
    /\ UNCHANGED <<call, retry, scan_retry, scan_idx, conn_name, client_info,
                   ncalls, acquires, fresh, only_timeouts>>

\* One step of caller t.  A caller of the single-caller specification passes
\* every input and meets every device behaviour listed above, and calls run up
\* to MaxRuns times.  A concurrent caller is the worker thread of one request:
\* it calls run once, passes one command list and meets the behaviours that end
\* an attempt in each of its ways (a result, an empty output, no result).
Step(t, rich) ==
    \/ \E h \in Hosts, c \in (IF rich THEN CommandArgs ELSE PoolCommandArgs),
          v \in (IF rich THEN VendorTags ELSE {"debian"}) :
           Call(t, h, c, v, IF rich THEN MaxRuns ELSE 1)
    \/ Attempt(t)
    \/ Exhausted(t)
    \/ ScanStep(t)
    \/ \E id \in (IF call[t].vendor = "" THEN Identified ELSE {""}) :
          \E tr \in TransportsFor(IF call[t].vendor = "" THEN id ELSE call[t].vendor, rich) :
              CreateClient(t, id, tr)
    \/ \E sc \in (IF pc[t] = "got" /\ hosts[call[t].host].slots[client_info[t]].client # 0
                  THEN ScriptTuples(
                           sessions[hosts[call[t].host].slots[client_info[t]].client].vendor,
                           filter_commands(call[t].commands.items), rich)
                  ELSE {<<>>}) :
           UseConnection(t, sc)
    \/ Finish(t)

\* Concurrent callers of one pool.
Next == \E t \in Threads : Step(t, FALSE)

Spec == Init /\ [][Next]_vars

\* Concurrent callers whose scans keep running: each caller is a thread of
\* its own (threading.Thread(...).start()), a block of the scan waits for
\* nothing but the registry lock, which is held for one block at a time, and
\* time.sleep(1) returns; so a caller inside the scan takes its next block.
SpecFair == Spec /\ \A t \in Threads : WF_vars(ScanStep(t))


\* One caller, calling run again and again.
NextRun == Step("t1", TRUE)

SpecRun == Init /\ [][NextRun]_vars

\* The calls of run by a caller that comes back to the pool.
RunsAgain == 2

\* What that caller passes: one command, or two, or something that is no
\* list.
AgainCommandArgs ==
    {[is_list |-> TRUE, items |-> <<<<"ls">>>>],
     [is_list |-> TRUE, items |-> <<<<"ls">>, <<"pwd">>>>],
     [is_list |-> FALSE, items |-> <<>>]}

\* How the device answers one command of that caller: with output, with an
\* error message, not at all; the Debian device also by closing the channel
\* after the echo.
AgainScripts(v, command) ==
    IF v = "cisco_xr" THEN PagingDeviceScripts(command)
    ELSE { <<command \o <<"CR", "NL">>, <<"out", "CR", "NL">>, PromptChunk>>,
           <<command \o <<"CR", "NL">> \o <<"DENIED", "NL">> \o PromptChunk>>,
           <<command \o <<"CR", "NL">>, <<>>>>,
           <<>> }

\* One script for each command of the batch.
AgainScriptTuples(v, commands) ==
    {f \in [1..Len(commands) -> UNION {AgainScripts(v, commands[i]) : i \in 1..Len(commands)}] :
        \A i \in 1..Len(commands) : f[i] \in AgainScripts(v, commands[i])}

\* The devices that caller meets: one that refuses the connection, and one
\* that completes the handshake.
AgainTransports(v) ==
    { [connect |-> FALSE, reads |-> <<>>, paging |-> <<>>],
      IF v = "cisco_xr"
      THEN [connect |-> TRUE, reads |-> <<<<"motd", "NL">> \o DevicePrompt("cisco_xr")>>,
            paging |-> <<<<"terminal", "SP", "length", "SP", "0", "NL">>
                            \o DevicePrompt("cisco_xr")>>]
      ELSE [connect |-> TRUE, reads |-> <<<<"motd", "NL">>, PromptChunk>>, paging |-> <<>>] }

\* One caller that names the device class and calls run up to RunsAgain
\* times, one call after the other has returned.
NextAgain ==
    \/ \E c \in AgainCommandArgs, v \in {"debian", "cisco_xr"} :
           Call("t1", "h1", c, v, RunsAgain)
    \/ Attempt("t1")
    \/ Exhausted("t1")
    \/ ScanStep("t1")
    \/ \E tr \in AgainTransports(call["t1"].vendor) : CreateClient("t1", "", tr)
    \/ \E sc \in (IF pc["t1"] = "got"
                       /\ hosts[call["t1"].host].slots[client_info["t1"]].client # 0
                  THEN AgainScriptTuples(call["t1"].vendor,
                                         filter_commands(call["t1"].commands.items))
                  ELSE {<<>>}) :
           UseConnection("t1", sc)
    \/ Finish("t1")

SpecAgain == Init /\ [][NextAgain]_vars

(***************************************************************************)
(* The functions of the device classes, applied on their own: the          *)
(* arguments are drawn at the start, one step applies the function.        *)
(***************************************************************************)
\* The most chunks a response arrives in.
MaxChunks == 3

\* The j-th smallest element of a set of numbers.
nth(S, j) == CHOOSE x \in S : Cardinality({y \in S : y <= x}) = j

\* text cut after the positions of cuts: the chunks recv() returns.
chunks_at(text, cuts) ==
    LET ends == cuts \cup {Len(text)} IN
    [j \in 1..Cardinality(ends) |->
        SubSeq(text, IF j = 1 THEN 1 ELSE nth(ends, j - 1) + 1, nth(ends, j))]

\* Every way of splitting text into at most MaxChunks chunks, none empty.
Splits(text) ==
    {chunks_at(text, cuts) :
        cuts \in {c \in SUBSET (1..(Len(text) - 1)) : Cardinality(c) < MaxChunks}}

\* The command the caller runs, and the line the device echoes for it.
ShowCommand == <<"show", "SP", "ver">>

EchoOf(vendor, command) ==
    IF vendor = "juniper" THEN juniper_command(command) ELSE command

\* What the device prints before its prompt: the echo and the output.  The
\* output is one line, or three lines of which the first ends with the last
\* character of a prompt ("#" as in a comment line, ">" as in a tag).
ResponseBodies(vendor, command) ==
    LET echo == EchoOf(vendor, command) \o <<"CR", "NL">>
        mark == IF vendor = "cisco_xr" THEN "#" ELSE ">"
    IN  { echo \o <<"out", "NL">>,
          echo \o <<"tag", mark, "NL", "out", "NL">> }

CycleInputs ==
    UNION { UNION { { [fn |-> "send_command", vendor |-> v, command |-> ShowCommand,
                       text |-> body, prompt |-> DevicePrompt(v), chunks |-> ch,
                       paging |-> <<>>,
                       identified |-> ""] :
                          ch \in Splits(body \o DevicePrompt(v)) } :
                    body \in ResponseBodies(v, ShowCommand) } :
            v \in {"cisco_xr", "juniper"} }

\* self.error_prompts of the device class.
ErrorPromptsOf(vendor) ==
    CASE vendor = "cisco_xr" -> CiscoXRErrorPrompts
      [] vendor = "debian"   -> DebianErrorPrompts
      [] OTHER               -> {}

\* What a device prints for a command it may refuse: the echo, then one line
\* of output, or one of the error messages of its class, ended by a newline
\* or (a file or a message without a final newline) not ended.
MarkedBodies(vendor, command) ==
    LET echo == EchoOf(vendor, command) \o <<"CR", "NL">> IN
    {echo \o <<"out", "CR", "NL">>}
        \cup {echo \o e \o <<"CR", "NL">> : e \in ErrorPromptsOf(vendor)}
        \cup {echo \o <<"cat:", "SP">> \o e : e \in ErrorPromptsOf(vendor)}
        \cup {echo \o e : e \in ErrorPromptsOf(vendor)}

\* The prompt the device shows after the command: another one than the
\* session has seen so far (the command changed the user or the host name).
PromptAfter(vendor) ==
    IF vendor = "cisco_xr" THEN <<"r2", "#">> ELSE <<"root", ":~$">>

MarkedInputs ==
    UNION { UNION { { [fn |-> "send_marked", vendor |-> v, command |-> ShowCommand,
                       text |-> body, prompt |-> PromptAfter(v), chunks |-> ch,
                       paging |-> <<>>,
                       identified |-> ""] :
                          ch \in Splits(body \o PromptAfter(v) \o <<"SP">>) } :
                    body \in MarkedBodies(v, ShowCommand) } :
            v \in {"cisco_xr", "debian"} }

\* The longest text handed to _remove_control_characters.
MaxText == 4

\* The characters of those texts: an escape, the parts of an escape
\* sequence, a newline, and the control characters \x07 and \x7F.
SanitizeChars == {"ESC", "[", "1", "SP", "m", "NL", "BEL", "DEL"}

SanitizeInputs ==
    {[fn |-> "sanitize", vendor |-> "", command |-> <<>>, text |-> t,
      prompt |-> <<>>, chunks |-> <<>>, paging |-> <<>>,
      identified |-> ""] :
         t \in SeqsUpTo(SanitizeChars, MaxText)}

\* The most reads of a handshake that the device decides.
MaxReads == 3

\* What a read of the handshake meets: socket.timeout, a banner line, or the
\* prompt.  After the reads listed the device is silent.
HandshakeChunks == {Timeout, <<"motd", "NL">>, PromptChunk}

HandshakeInputs ==
    {[fn |-> "init_terminal", vendor |-> "debian", command |-> <<>>, text |-> <<>>,
      prompt |-> <<>>, chunks |-> r, paging |-> <<>>,
      identified |-> ""] :
         r \in SeqsUpTo(HandshakeChunks, MaxReads) \ {<<>>}}

\* How a Cisco XR device answers "terminal length 0": it accepts it; it
\* rejects it with one of the error messages; it echoes it and shows no
\* prompt; it sends nothing; it closes the channel.
PagingAnswers ==
    LET echo == <<"terminal", "SP", "length", "SP", "0", "CR", "NL">> IN
    {<<echo \o DevicePrompt("cisco_xr")>>, <<echo>>, <<>>, <<<<>>>>}
        \cup {<<echo, e \o <<"NL">> \o DevicePrompt("cisco_xr")>> : e \in CiscoXRErrorPrompts}

\* The construction of a Cisco XR session: the handshake shows a banner and
\* the prompt, and the device answers the paging command with paging.
ConstructInputs ==
    {[fn |-> "create_client", vendor |-> "cisco_xr", command |-> <<>>, text |-> <<>>,
      prompt |-> DevicePrompt("cisco_xr"),
      chunks |-> <<<<"motd", "NL">> \o DevicePrompt("cisco_xr")>>, paging |-> a,
      identified |-> ""] :
         a \in PagingAnswers}

\* How a device answers one command of a batch: with output and a new
\* prompt; with a dialog, then output and the prompt; it echoes the command
\* and closes the channel; it closes the channel at once; it sends nothing
\* (every read raises socket.timeout); it echoes the command, lets a read
\* time out and shows the prompt too late.
ExecScripts(vendor, command) ==
    LET echo == command \o <<"CR", "NL">>
        shown == <<"out", "NL">> \o PromptAfter(vendor) \o <<"SP">>
        ask == IF vendor = "cisco_xr" THEN <<"]?">> ELSE <<"[Y/N]">>
    IN  { <<echo, shown>>,
          <<echo \o ask, shown>>,
          <<echo, <<>>>>,
          <<<<>>>>,
          <<>>,
          <<echo, Timeout, PromptAfter(vendor)>> }

\* The batches handed to exec_commands on its own: one command, or two.
ExecBatches == {<<<<"ls">>>>, <<<<"ls">>, <<"SP", "pwd">>>>}

ExecInputs ==
    UNION { UNION { { [fn |-> "exec_commands", vendor |-> v, command |-> b,
                       text |-> <<>>, prompt |-> PromptAfter(v), chunks |-> sc,
                       paging |-> <<>>,
                       identified |-> ""] :
                          sc \in {f \in [1..Len(b) -> UNION {ExecScripts(v, strip(b[i])) :
                                                                i \in 1..Len(b)}] :
                                     \A i \in 1..Len(b) : f[i] \in ExecScripts(v, strip(b[i]))} } :
                    b \in ExecBatches } :
            v \in {"cisco_xr", "debian"} }

\* The most "end" commands that the device decides how to answer.
MaxEnds == 2

\* The prompt of the configuration view.
ConfigPrompt == <<"r", "(config)", "#">>

\* How the device answers one "end": it leaves the configuration view; it
\* stays in it; it sends nothing; it closes the channel.
EndAnswers ==
    { <<<<"end", "NL">> \o DevicePrompt("cisco_xr")>>,
      <<<<"end", "NL">> \o ConfigPrompt>>,
      <<>>,
      <<<<>>>> }

\* _new_terminal on a session in the initial view or in a configuration view.
NewTerminalInputs ==
    {[fn |-> "new_terminal", vendor |-> "cisco_xr", command |-> <<>>, text |-> <<>>,
      prompt |-> p, chunks |-> e, paging |-> <<>>,
      identified |-> ""] :
         p \in {DevicePrompt("cisco_xr"), ConfigPrompt}, e \in SeqsUpTo(EndAnswers, MaxEnds)}

\* The tags handed to the factory and the answers of the identification: a
\* tag of the registry, the same in another case, a tag without a device
\* class, and none ("" is no tag, and None from _identify_vendor).
FactoryTags == {"", "debian", "Debian", "nokia"}

\* create_client for a host whose device completes the Debian handshake.
FactoryInputs ==
    {[fn |-> "factory", vendor |-> v, command |-> <<>>, text |-> <<>>,
      prompt |-> <<>>, chunks |-> <<<<"motd", "NL">>, PromptChunk>>, paging |-> <<>>,
      identified |-> id] :
         v \in FactoryTags, id \in FactoryTags}

\* The commands that open a dialog on a Cisco XR device.
DialogCommands == {<<"end">>, <<"exit">>, <<"reload">>}

\* What one read of such a cycle returns: a question that ends with
\* "yes/no]:", one that ends with "]?", the first with text after it, white
\* space, a line of output, the prompt.
DialogChunks ==
    { <<"Proceed", "SP", "yes/no]:", "SP">>,
      <<"Destination", "SP", "]?">>,
      <<"yes/no]:", "NL", "copying">>,
      <<"CR", "NL">>,
      <<"out", "NL">>,
      <<"r", "#">> }

\* The most reads of a cycle with dialogs that the device decides.
MaxDialogReads == 3

DialogInputs ==
    {[fn |-> "send_dialog", vendor |-> "cisco_xr", command |-> c, text |-> <<>>,
      prompt |-> <<"r", "#">>, chunks |-> ch, paging |-> <<>>, identified |-> ""] :
         c \in DialogCommands, ch \in SeqsUpTo(DialogChunks, MaxDialogReads)}

\* What a Debian device sends in one read of a cycle with a confirmation
\* dialog: the question with its marker, a line without a marker, the last
\* line and the prompt.
ConfirmChunks ==
    { <<"sure", "SP", "[Y/N]">>,
      <<"wait", "NL">>,
      <<"done", "NL">> \o PromptChunk }

\* The inputs of DebianDevice._send_command for a dialog: a command that is
\* answered "n", one that is answered "y", and up to MaxDialogReads reads.
ConfirmInputs ==
    {[fn |-> "send_confirm", vendor |-> "debian", command |-> c, text |-> <<>>,
      prompt |-> <<"u", ":~$">>, chunks |-> ch, paging |-> <<>>, identified |-> ""] :
         c \in {<<"quit">>, <<"rm">>}, ch \in SeqsUpTo(ConfirmChunks, MaxDialogReads)}

\* The inputs of run_ssh_command as far as the choice of the device class
\* goes: the caller's tag, what the identification of the host returns, and
\* a Debian device that completes the handshake.
RunVendorInputs ==
    {[fn |-> "run_vendor", vendor |-> v, command |-> <<>>, text |-> <<>>,
      prompt |-> <<>>, chunks |-> <<<<"motd", "NL">>, PromptChunk>>, paging |-> <<>>,
      identified |-> id] :
         v \in FactoryTags, id \in FactoryTags}

\* A handshake during which the channel closes: after banner lines and
\* reads that time out, a read returns b"".
ClosingInputs ==
    {[fn |-> "init_closing", vendor |-> "debian", command |-> <<>>, text |-> <<>>,
      prompt |-> <<>>, chunks |-> Append(r, <<>>), paging |-> <<>>, identified |-> ""] :
         r \in SeqsUpTo({Timeout, <<"motd", "NL">>}, MaxReads - 1)}

InitCycle ==
    /\ InitPool
    /\ fn_in \in CycleInputs \cup SanitizeInputs \cup HandshakeInputs \cup ConstructInputs
                   \cup MarkedInputs \cup ExecInputs \cup NewTerminalInputs
                   \cup FactoryInputs \cup DialogInputs \cup ClosingInputs
                   \cup ConfirmInputs \cup RunVendorInputs
    /\ fn_out = NoOutput

\* A session of the vendor after its handshake.
ReadySession(vendor) ==
    [vendor |-> vendor, ssh_shell |-> "open", current_prompt |-> DevicePrompt(vendor)]

\* respond = self._send_command(command), the device answering with fn_in.chunks.
SendCycle ==
    /\ fn_in.fn \in {"send_command", "send_marked", "send_dialog", "send_confirm"}
    /\ ~fn_out.done
    /\ \E r \in {send_command(ReadySession(fn_in.vendor), fn_in.command, fn_in.chunks)} :
           fn_out' = [done |-> TRUE, kind |-> r.respond.kind,
                      detail |-> r.respond.detail, wrote |-> r.wrote,
                      prompt |-> r.sess.current_prompt]
    /\ UNCHANGED <<pool_vars, fn_in>>

\* _remove_control_characters(detail.strip())
Sanitize ==
    /\ fn_in.fn = "sanitize"
    /\ ~fn_out.done
    /\ fn_out' = [done |-> TRUE, kind |-> "text",
                  detail |-> remove_control_characters(fn_in.text), wrote |-> <<>>,
                  prompt |-> <<>>]
    /\ UNCHANGED <<pool_vars, fn_in>>

\* self._init_terminal() on a channel just opened, the device sending
\* fn_in.chunks.
InitTerminal ==
    /\ fn_in.fn \in {"init_terminal", "init_closing"}
    /\ ~fn_out.done
    /\ \E r \in {init_terminal([vendor |-> fn_in.vendor, ssh_shell |-> "open",
                                 current_prompt |-> <<>>], fn_in.chunks, <<>>)} :
           fn_out' = [done |-> TRUE,
                      kind |-> IF r.hangs THEN "hangs"
                               ELSE IF r.sess.ssh_shell = "open" THEN "ready" ELSE "closed",
                      detail |-> r.sess.current_prompt, wrote |-> r.wrote,
                      prompt |-> r.sess.current_prompt]
    /\ UNCHANGED <<pool_vars, fn_in>>

\* SSHClientFactory.create_client(host, ..., vendor=fn_in.vendor), the device
\* sending fn_in.chunks during the handshake and fn_in.paging after it.
\* run_ssh_command down to the factory: the tag is passed on or left out,
\* execute_command and get_connection hand it through unchanged, and
\* create_client constructs the session of a slot that has none yet.
RunVendor ==
    /\ fn_in.fn = "run_vendor"
    /\ ~fn_out.done
    /\ \E r \in {create_client(passed_vendor(fn_in.vendor), fn_in.identified,
                                [connect |-> TRUE, reads |-> fn_in.chunks,
                                 paging |-> fn_in.paging])} :
           fn_out' = [done |-> TRUE,
                      kind |-> IF r.client THEN "client" ELSE "none",
                      detail |-> <<r.sess.vendor>>, wrote |-> r.wrote,
                      prompt |-> r.sess.current_prompt]
    /\ UNCHANGED <<pool_vars, fn_in>>

Construct ==
    /\ fn_in.fn \in {"create_client", "factory"}
    /\ ~fn_out.done
    /\ \E r \in {create_client(fn_in.vendor, fn_in.identified,
                                [connect |-> TRUE, reads |-> fn_in.chunks,
                                 paging |-> fn_in.paging])} :
           fn_out' = [done |-> TRUE,
                      kind |-> IF r.client THEN "client" ELSE "none",
                      detail |-> <<r.sess.ssh_shell>>, wrote |-> r.wrote,
                      prompt |-> r.sess.current_prompt]
    /\ UNCHANGED <<pool_vars, fn_in>>

\* client.exec_commands(fn_in.command) on a session after its handshake, the
\* device answering the i-th command with fn_in.chunks[i].
ExecCommands ==
    /\ fn_in.fn = "exec_commands"
    /\ ~fn_out.done
    /\ \E r \in {exec_commands(ReadySession(fn_in.vendor),
                                 [is_list |-> TRUE, items |-> fn_in.command],
                                 fn_in.chunks)} :
           fn_out' = [done |-> TRUE, kind |-> r.result.kind,
                      detail |-> r.result.entries, wrote |-> r.wrote,
                      prompt |-> r.sess.current_prompt]
    /\ UNCHANGED <<pool_vars, fn_in>>

\* self._new_terminal() on a session whose prompt is fn_in.prompt, the device
\* answering the n-th "end" with fn_in.chunks[n].
NewTerminal ==
    /\ fn_in.fn = "new_terminal"
    /\ ~fn_out.done
    /\ \E r \in {config_new_terminal_loop(
                      [ReadySession(fn_in.vendor) EXCEPT !.current_prompt = fn_in.prompt],
                      fn_in.chunks, 1, <<>>)} :
           fn_out' = [done |-> TRUE,
                      kind |-> IF r.hangs THEN "hangs"
                               ELSE IF r.raised THEN "raised" ELSE "returned",
                      detail |-> <<r.sess.ssh_shell>>, wrote |-> r.wrote,
                      prompt |-> r.sess.current_prompt]
    /\ UNCHANGED <<pool_vars, fn_in>>

NextCycle ==
    SendCycle \/ Sanitize \/ InitTerminal \/ Construct \/ ExecCommands \/ NewTerminal
        \/ RunVendor

SpecCycle == InitCycle /\ [][NextCycle]_vars

(***************************************************************************)
(* Properties.                                                             *)
(***************************************************************************)
\* The caller has a slot in hand: get_connection has returned it, and the
\* caller has called neither release_connection nor disconnect on it.
Holding(t) == pc[t] \in {"got", "post"}

\* The run of the caller has returned.
Returned(t) == pc[t] = "idle" /\ ret[t] # NoReturn

\* C1: get_connection never hands a slot to a caller while another caller has
\* it in hand: two callers that hold slots of one host hold different slots,
\* and a slot in hand is registered and its lock is held.
C1_ExclusiveSlot ==
    \A t \in Threads :
        Holding(t) =>
            /\ client_info[t] \in DOMAIN hosts[call[t].host].slots
            /\ hosts[call[t].host].slots[client_info[t]].locked
            /\ \A u \in Threads \ {t} :
                   Holding(u) /\ call[u].host = call[t].host
                       => client_info[u] # client_info[t]

\* Two callers hold slots of the same host at the same time.
C1_Witness ==
    \E t, u \in Threads :
        /\ t # u
        /\ Holding(t) /\ Holding(u)
        /\ call[t].host = call[u].host
        /\ client_info[t] # client_info[u]

\* C2: a host never has more than max_connections_per_host slots, nor more
\* than that many sessions bound to its slots.
C2_SlotsBounded ==
    \A h \in Hosts :
        /\ Cardinality(DOMAIN hosts[h].slots) <= MaxConnectionsPerHost
        /\ Cardinality({hosts[h].slots[i].client : i \in DOMAIN hosts[h].slots} \ {0})
               <= MaxConnectionsPerHost

\* A host has max_connections_per_host slots, each bound to its own session.
C2_Witness ==
    \E h \in Hosts :
        /\ Cardinality(DOMAIN hosts[h].slots) = MaxConnectionsPerHost
        /\ Cardinality({hosts[h].slots[i].client : i \in DOMAIN hosts[h].slots} \ {0})
               = MaxConnectionsPerHost

\* The command list holds no command to send: it is a list, and each of its
\* items is blank.
OnlyBlank(commands) ==
    commands.is_list /\ \A i \in 1..Len(commands.items) : strip(commands.items[i]) = <<>>

\* The command list holds at least one command that is not blank.
HasCommand(commands) ==
    commands.is_list /\ \E i \in 1..Len(commands.items) : strip(commands.items[i]) # <<>>

\* How the attempts of a run can end without a return.
LostAttempts == {"no slot", "no client", "no session", "no result", "stale"}

\* The last attempt of the run of the caller ended this way.
LastAttempt(t, how) ==
    Len(attempts[t]) > 0 /\ attempts[t][Len(attempts[t])] = how

\* C3: every slot the run obtained is released or evicted before the run
\* starts its next retry or returns: between attempts and after the return
\* the run owes the pool no slot.
C3_SlotSettled ==
    \A t \in Threads : pc[t] \in {"idle", "loop"} => owed[t] = {}

\* C4: a run whose command list is empty or holds only blank commands
\* returns success with empty data and has not called get_connection.
C4_BlankNoPool ==
    \A t \in Threads :
        Returned(t) /\ OnlyBlank(call[t].commands) =>
            /\ ret[t].status = "success"
            /\ ret[t].data = <<>>
            /\ acquires[t] = 0

\* The writes of the commands themselves, in order.
CommandWrites(w) == SelectSeq(w, LAMBDA x : x.site = "command")

\* How the send-cycle of the i-th command of the batch ends against its script.
CycleKind(b, i) ==
    send_command(ReadySession(b.vendor), b.commands[i], b.scripts[i]).respond.kind

\* The position of the first command of the batch whose send-cycle returns a
\* rejection or no result; 0 when every command is answered.
FirstFailure(b) ==
    LET bad == {i \in 1..Len(b.commands) : CycleKind(b, i) # "ok"}
    IN  IF bad = {} THEN 0 ELSE CHOOSE i \in bad : \A j \in bad : i <= j

\* C5: in a batch of n commands whose k-th command is the first to fail,
\* exactly the commands 1..k are written to the channel, in order (all n when
\* none fails).
C5_FailFast ==
    \A t \in Threads :
        pc[t] = "post" /\ result[t].kind = "map" =>
            LET b == batch[t]
                k == FirstFailure(b)
                m == IF k = 0 THEN Len(b.commands) ELSE k
            IN  CommandWrites(wrote[t]) =
                    [i \in 1..m |-> Write("command", b.commands[i] \o <<"NL">>)]

\* A batch of two commands whose first command failed has been run, and one
\* command was written.
C5_Witness ==
    \E t \in Threads :
        /\ pc[t] = "post" /\ result[t].kind = "map"
        /\ Len(batch[t].commands) = 2
        /\ FirstFailure(batch[t]) = 1
        /\ Len(CommandWrites(wrote[t])) = 1

\* s begins with the text "failed: ".
FailedPrefix(s) == Len(s) > 0 /\ s[1] = "failed: "

\* C6: when the k-th command of a batch of n is the first one rejected by an
\* error marker, the result map has an entry for every command: the output of
\* 1..k-1, a value prefixed "failed: " for k, the value "failed" for k+1..n.
C6_EveryCommandHasEntry ==
    \A t \in Threads :
        pc[t] = "post" /\ result[t].kind = "map" =>
            LET b == batch[t]
                n == Len(b.commands)
                k == FirstFailure(b)
                e == result[t].entries
            IN  k # 0 /\ CycleKind(b, k) = "rejected" =>
                    /\ Len(e) = n
                    /\ \A i \in 1..n : e[i].key = <<i - 1, b.commands[i]>>
                    /\ \A i \in 1..(k - 1) : e[i].value # <<"failed">> /\ ~FailedPrefix(e[i].value)
                    /\ FailedPrefix(e[k].value)
                    /\ \A i \in (k + 1)..n : e[i].value = <<"failed">>

\* The result map the run returned holds output: its values, joined, are not
\* blank.
HasOutput(data) ==
    \E i \in 1..Len(data) : \E j \in 1..Len(data[i].value) : data[i].value[j] \notin Whitespace

\* C7, as the specification states it: a run makes at most 3 attempts, and
\* returns failed with empty data if and only if none of its attempts
\* produced a non-empty result map; each attempt that is lost counts once.
C7_FailedIffNoResultMap ==
    \A t \in Threads :
        /\ acquires[t] <= 3
        /\ Returned(t) =>
               /\ Len(attempts[t]) = acquires[t]
               /\ (ret[t].status = "failed" /\ ret[t].data = <<>>)
                      <=> ~\E i \in 1..Len(attempts[t]) : attempts[t][i] = "output"

\* C7, amended: a run makes at most 3 calls of get_connection, each attempt
\* lowers the retry counter by one and ends in one way; a run of a command
\* list that holds a command that is not blank returns failed with empty data
\* if and only if it made 3 attempts and each was lost (no slot, no client, no
\* result map, or a result map whose joined output is blank), and it returns
\* success with the result map otherwise, the map holding output.
C7_Retries ==
    \A t \in Threads :
        /\ acquires[t] <= 3
        /\ pc[t] = "loop" => acquires[t] + retry[t] = 3 /\ Len(attempts[t]) = acquires[t]
        /\ Returned(t) /\ HasCommand(call[t].commands) =>
               /\ Len(attempts[t]) = acquires[t]
               /\ ret[t].status \in {"failed", "success"}
               /\ ret[t].status = "failed" <=>
                      /\ Len(attempts[t]) = 3
                      /\ \A i \in 1..3 : attempts[t][i] \in LostAttempts
               /\ ret[t].status = "failed" => ret[t].data = <<>>
               /\ ret[t].status = "success" =>
                      /\ LastAttempt(t, "output")
                      /\ \A i \in 1..(Len(attempts[t]) - 1) : attempts[t][i] \in LostAttempts
                      /\ HasOutput(ret[t].data)

\* A run has returned failed after an attempt without a client, an attempt
\* without a result map and an attempt that found no free slot.
C7_Witness ==
    \E t \in Threads :
        /\ Returned(t) /\ HasCommand(call[t].commands)
        /\ ret[t].status = "failed"
        /\ attempts[t] = <<"no client", "no result", "no slot">>

\* The sessions bound to the slots of the pool.
Bound ==
    UNION {{hosts[h].slots[i].client : i \in DOMAIN hosts[h].slots} : h \in Hosts} \ {0}

\* C8, as the specification states it: after an attempt that ended with an
\* entirely empty output the run retries on a session constructed afresh.
C8_RetryOnFreshSession ==
    \A t \in Threads : pc[t] = "got" /\ LastAttempt(t, "stale") => fresh[t]

\* C8, amended: the slot of a session whose batch gave an entirely empty
\* output is deleted from the pool, and the stale session is bound to no slot
\* afterwards: neither the retry of the run nor any later caller is handed it.
\* The retry runs on the session get_connection returns, constructed afresh
\* or taken from another slot of the host.
C8_StaleNeverReused ==
    /\ Bound \cap stale = {}
    /\ \A t \in Threads :
           Holding(t) => hosts[call[t].host].slots[client_info[t]].client \notin stale
    /\ \A t \in Threads :
           pc[t] = "loop" /\ LastAttempt(t, "stale") =>
               \/ client_info[t] \notin DOMAIN hosts[call[t].host].slots
               \/ hosts[call[t].host].slots[client_info[t]].client \notin stale

\* A run holds a slot for its retry after it evicted a stale session, and
\* the session of the slot was constructed by the retry.
C8_Witness ==
    \E t \in Threads :
        /\ pc[t] = "got" /\ LastAttempt(t, "stale") /\ fresh[t]
        /\ stale # {}
        /\ hosts[call[t].host].slots[client_info[t]].client \notin stale

\* C9, as the specification states it: when every read of every handshake
\* times out, a run of a non-empty command list makes 3 attempts and returns
\* failed.
C9_TimeoutsFailAnyList ==
    \A t \in Threads :
        /\ only_timeouts /\ Returned(t)
        /\ call[t].commands.is_list /\ Len(call[t].commands.items) > 0
        => ret[t].status = "failed" /\ acquires[t] = 3

\* C9, amended: when every read of every handshake times out, a run of a
\* command list that holds a command that is not blank makes 3 attempts and
\* returns failed with empty data.
C9_TimeoutsFail ==
    \A t \in Threads :
        only_timeouts /\ Returned(t) /\ HasCommand(call[t].commands)
        => ret[t].status = "failed" /\ ret[t].data = <<>> /\ acquires[t] = 3

\* A run has returned failed; each of its handshakes timed out on every read,
\* and a session that never saw a prompt was handed to it.
C9_Witness ==
    \E t \in Threads :
        /\ only_timeouts /\ Returned(t) /\ HasCommand(call[t].commands)
        /\ ret[t].status = "failed"
        /\ Len(sessions) > 0
        /\ \E i \in 1..Len(attempts[t]) : attempts[t][i] = "no result"

\* The device answers the command with the echo of the command, output that
\* is not empty, and a line that matches the prompt.
WellAnswered(command, script) ==
    LET all == decode(join_nl(script))
        echo == command \o <<"NL">>
    IN  /\ Len(script) > 0
        /\ \A i \in 1..Len(script) : script[i] # <<>> /\ script[i] # Timeout
        /\ Len(all) > Len(echo) /\ SubSeq(all, 1, Len(echo)) = echo
        /\ debian_findall(last_line(strip(all))) # <<>>
        /\ strip(remove_all(SubSeq(all, Len(echo) + 1, Len(all)),
                            debian_findall(last_line(strip(all)))[1])) # <<>>

\* C10: when the device answers every written command with the echo,
\* non-empty output and the prompt, the first attempt of the run gives a
\* result map with exactly one entry for each command that is not blank,
\* keyed by its position and its trimmed text.
C10_EntryPerCommand ==
    \A t \in Threads :
        /\ pc[t] = "post" /\ acquires[t] = 1
        /\ batch[t].vendor = "debian"
        /\ sessions[hosts[call[t].host].slots[client_info[t]].client].current_prompt # <<>>
        /\ \A i \in 1..Len(batch[t].commands) :
               WellAnswered(batch[t].commands[i], batch[t].scripts[i])
        => /\ result[t].kind = "map"
           /\ Len(result[t].entries) = Len(batch[t].commands)
           /\ \A i \in 1..Len(batch[t].commands) :
                  result[t].entries[i].key = <<i - 1, batch[t].commands[i]>>

\* C11: a send-cycle of a device class without continuation markers, whose
\* response ends with the prompt, returns the text of all chunks together,
\* with the prompt removed: whatever the split, nothing is lost and nothing
\* is returned twice.
C11_FullOutput ==
    fn_in.fn = "send_command" /\ fn_out.done =>
        /\ fn_out.kind = "ok"
        /\ strip(fn_out.detail) = strip(decode(fn_in.text))

\* A response that arrived in three chunks was returned whole.
C11_Witness ==
    /\ fn_in.fn = "send_command" /\ fn_out.done
    /\ Len(fn_in.chunks) = 3
    /\ fn_out.kind = "ok"
    /\ strip(fn_out.detail) = strip(decode(fn_in.text))

\* The control characters: the codes below 32, and \x7F.
ControlCodes == {"CR", "BEL", "ESC", "DEL", "NL", "TAB"}

\* C12: sanitizing sanitized text changes nothing, and sanitized text holds
\* no ESC and no control character other than newline and tab.
C12_SanitizedClean ==
    fn_in.fn = "sanitize" /\ fn_out.done =>
        /\ remove_control_characters(fn_out.detail) = fn_out.detail
        /\ \A i \in 1..Len(fn_out.detail) :
               fn_out.detail[i] \notin (ControlCodes \ {"NL", "TAB"})

\* A text with an escape sequence and a control character was sanitized to
\* the text around them.
C12_Witness ==
    /\ fn_in.fn = "sanitize" /\ fn_out.done
    /\ fn_in.text = <<"ESC", "[", "1", "m">>
    /\ fn_out.detail = <<>>

\* C13: whatever fails below it, a call of run ends with a result whose
\* status is "success" or "failed": no exception leaves run.
C13_NoExceptionEscapes ==
    \A t \in Threads :
        /\ ret[t] # Raised
        /\ Returned(t) =>
               /\ ret[t].status \in {"success", "failed"}
               /\ DOMAIN ret[t] = {"status", "msg", "data"}

\* A run has returned failed after two constructors raised (the device
\* rejected the command that switches paging off) and the pool had no free
\* slot left.
C13_Witness ==
    \E t \in Threads :
        /\ Returned(t) /\ call[t].vendor = "cisco_xr"
        /\ ret[t].status = "failed"
        /\ attempts[t] = <<"no client", "no client", "no slot">>
        /\ sessions = <<>>

\* The sessions that are live: the handshake found a prompt, and close() has
\* not been called on them.  Every session is one to the host of Hosts.
LiveSessions ==
    {i \in 1..Len(sessions) :
        sessions[i].current_prompt # <<>> /\ sessions[i].ssh_shell # "none"}

\* C14: at no time are there more than max_connections_per_host live
\* sessions to the host, and a session whose slot was evicted is not live.
C14_LiveSessionsBounded ==
    /\ Cardinality(LiveSessions) <= MaxConnectionsPerHost
    /\ stale \cap LiveSessions = {}

\* One run evicted the slot of each of its three sessions, and the three are
\* open at its end: more than the pool has slots.
C14_Witness ==
    \E t \in Threads :
        /\ Returned(t)
        /\ attempts[t] = <<"stale", "stale", "stale">>
        /\ Cardinality(stale) > MaxConnectionsPerHost
        /\ \A i \in stale : sessions[i].ssh_shell = "open"

\* C15: when the construction of the session of a slot that get_connection
\* has just created fails, that slot is evicted or released: once
\* get_connection has returned None for it, the slot is not registered with
\* its lock held.
C15_FailedConstructionEvicts ==
    \A t \in Threads :
        pc[t] \in {"loop", "idle"} /\ LastAttempt(t, "no client") =>
            \/ conn_name[t] \notin DOMAIN hosts[call[t].host].slots
            \/ ~hosts[call[t].host].slots[conn_name[t]].locked

\* Two constructions of a run failed, and each left its slot registered,
\* locked and without a session, so the third attempt found no slot.
C15_Witness ==
    \E t \in Threads :
        /\ Returned(t)
        /\ attempts[t] = <<"no client", "no client", "no slot">>
        /\ \A i \in scan_range :
               /\ i \in DOMAIN hosts[call[t].host].slots
               /\ hosts[call[t].host].slots[i] = NewSlot

\* C16: a session that the factory returned and get_connection bound to a
\* slot is Ready: its channel is open and its current prompt was detected.
C16_ConstructedIsReady ==
    \A t \in Threads :
        pc[t] = "got" /\ fresh[t] /\ hosts[call[t].host].slots[client_info[t]].client # 0 =>
            /\ sessions[hosts[call[t].host].slots[client_info[t]].client].ssh_shell = "open"
            /\ sessions[hosts[call[t].host].slots[client_info[t]].client].current_prompt # <<>>

\* get_connection has returned a slot with a session it has just constructed
\* whose handshake saw no prompt: the constructor closed it and returned.
C16_Witness ==
    \E t \in Threads :
        /\ pc[t] = "got" /\ fresh[t]
        /\ hosts[call[t].host].slots[client_info[t]].client = Len(sessions)
        /\ sessions[Len(sessions)].ssh_shell = "none"
        /\ sessions[Len(sessions)].current_prompt = <<>>

\* C17: the scan of get_connection creates a new slot only when every
\* existing slot of the host is held; where an existing slot is free, that
\* slot is returned, also when a lower index is missing.  The pass has seen
\* the slots below the index it creates held, each in its own block; at the
\* step that creates, the slots above it are held too.
C17_CreateOnlyWhenAllHeld ==
    [][\A t \in Threads :
          pc[t] = "scan" /\ pc'[t] = "create" =>
              \A i \in DOMAIN hosts[call[t].host].slots :
                  i > scan_idx[t] => hosts[call[t].host].slots[i].locked]_vars

\* A scan has created the slot of a missing lower index while the slot of a
\* higher index is registered and free.
C17_Witness ==
    \E t \in Threads :
        /\ pc[t] = "create"
        /\ \E i \in DOMAIN hosts[call[t].host].slots :
               /\ i > conn_name[t]
               /\ ~hosts[call[t].host].slots[i].locked

\* The step is one `with self.lock` block of the scan of caller t.
ScanBlock(t) ==
    /\ pc[t] = "scan"
    /\ \/ pc'[t] # "scan"
       \/ scan_idx'[t] # scan_idx[t]
       \/ scan_retry'[t] # scan_retry[t]

\* The slot the scan of caller t looks at next is registered and held.
ScanSlotHeld(t) ==
    /\ scan_idx[t] \in DOMAIN hosts[call[t].host].slots
    /\ hosts[call[t].host].slots[scan_idx[t]].locked

OnDevice(t) == pc[t] \in {"create", "got"}

\* C19: the registry lock is not held by a caller that is constructing a
\* session or executing commands, so while a caller is on a device every
\* other caller can take the block of the registry it has come to: the first
\* block of get_connection, a block of the scan, a release or an eviction.
C19_RegistryLockBrief ==
    \A t \in Threads :
        OnDevice(t) =>
            /\ lock # t
            /\ \A u \in Threads \ {t} :
                   /\ pc[u] = "loop" /\ retry[u] > 0 => ENABLED Attempt(u)
                   /\ pc[u] = "scan" => ENABLED ScanStep(u)
                   /\ pc[u] = "post" => ENABLED Finish(u)

\* One caller is constructing a session while the other, with the output of
\* its commands in hand, is about to release its slot.
C19_Witness ==
    \E t \in Threads, u \in Threads :
        /\ pc[t] = "create" /\ pc[u] = "post"
        /\ result[u].kind = "map" /\ ~joined_empty(result[u].entries)
        /\ lock = "none"

\* Caller t holds the mutex of slot i of its host: it created the slot and is
\* constructing its session, or get_connection has returned the slot to it.
HoldsSlot(t, i) ==
    \/ pc[t] = "create" /\ conn_name[t] = i
    \/ Holding(t) /\ client_info[t] = i

\* The step binds a session to slot i of host h, acts on the session bound
\* to it, releases its mutex or evicts it.
SlotTouched(h, i) ==
    /\ i \in DOMAIN hosts[h].slots
    /\ \/ i \notin DOMAIN hosts'[h].slots
       \/ /\ i \in DOMAIN hosts'[h].slots
          /\ \/ hosts'[h].slots[i].client # hosts[h].slots[i].client
             \/ hosts[h].slots[i].locked /\ ~hosts'[h].slots[i].locked
       \/ /\ hosts[h].slots[i].client # 0
          /\ sessions'[hosts[h].slots[i].client] # sessions[hosts[h].slots[i].client]

\* C20: the session of a slot is bound, read and used, and the slot is
\* released or evicted, only by the caller that holds the mutex of the slot:
\* the caller that takes the step holds the slot, the mutex is locked, and no
\* other caller holds it.
C20_OnlyHolderTouchesSlot ==
    [][/\ \A h \in Hosts, i \in scan_range :
             SlotTouched(h, i) =>
                 \E t \in Threads :
                     /\ pc'[t] # pc[t] /\ call[t].host = h
                     /\ HoldsSlot(t, i)
                     /\ hosts[h].slots[i].locked
                     /\ \A u \in Threads \ {t} : ~(call[u].host = h /\ HoldsSlot(u, i))
       /\ \A t \in Threads :
             pc[t] = "got" /\ pc'[t] # "got" =>
                 /\ client_info[t] \in DOMAIN hosts[call[t].host].slots
                 /\ hosts[call[t].host].slots[client_info[t]].locked]_vars

\* One caller has executed its commands on the session of its slot and is
\* about to release it, while the other caller is constructing the session
\* of the other slot.
C20_Witness ==
    \E t \in Threads, u \in Threads :
        /\ pc[t] = "post" /\ wrote[t] # <<>> /\ result[t].kind = "map"
        /\ pc[u] = "create" /\ conn_name[u] # client_info[t]
        /\ hosts[call[u].host].slots[conn_name[u]] = NewSlot

\* The step releases the mutex of slot i of host h.
SlotReleased(h, i) ==
    /\ i \in DOMAIN hosts[h].slots /\ hosts[h].slots[i].locked
    /\ i \in DOMAIN hosts'[h].slots /\ ~hosts'[h].slots[i].locked

\* C21: a released slot stays registered, bound to the session it had, with
\* its lock free; and a block of a scan that comes to a registered slot whose
\* lock is free returns that slot with the session it has: nothing but its
\* lock changes in the pool, and no session is constructed.
C21_ReleasedSlotReused ==
    [][/\ \A h \in Hosts, i \in scan_range :
             SlotReleased(h, i) =>
                 /\ hosts[h].slots[i].client # 0
                 /\ hosts'[h].slots[i].client = hosts[h].slots[i].client
                 /\ DOMAIN hosts'[h].slots = DOMAIN hosts[h].slots
                 /\ sessions' = sessions
       /\ \A t \in Threads :
             /\ ScanBlock(t)
             /\ scan_idx[t] \in DOMAIN hosts[call[t].host].slots
             /\ ~hosts[call[t].host].slots[scan_idx[t]].locked
             => /\ pc'[t] = "got" /\ client_info'[t] = scan_idx[t] /\ ~fresh'[t]
                /\ hosts' = [hosts EXCEPT ![call[t].host].slots[scan_idx[t]].locked = TRUE]
                /\ hosts'[call[t].host].slots[scan_idx[t]].client # 0
                /\ sessions' = sessions]_vars

\* A caller has in hand the slot and the session that the other caller
\* constructed, used and released: one session was ever constructed.
C21_Witness ==
    \E t \in Threads, u \in Threads :
        /\ pc[t] = "got" /\ ~fresh[t]
        /\ Returned(u) /\ LastAttempt(u, "output")
        /\ Len(sessions) = 1
        /\ hosts[call[t].host].slots[client_info[t]] = [client |-> 1, locked |-> TRUE]

\* The step deletes slot i of host h.
SlotEvicted(h, i) ==
    i \in DOMAIN hosts[h].slots /\ i \notin DOMAIN hosts'[h].slots

\* The step registers slot i of host h.
SlotCreated(h, i) ==
    i \notin DOMAIN hosts[h].slots /\ i \in DOMAIN hosts'[h].slots

\* C22: the eviction that ends an attempt deletes the slot of the caller,
\* with the reference to its session, in a block of the registry lock, and
\* leaves every other slot and every session as it is; a get_connection that
\* comes to a missing index registers there a slot without session whose new
\* lock the caller holds, and the session bound to it afterwards is one
\* constructed for it, never one that was bound before.
C22_EvictAndRecreate ==
    [][\A h \in Hosts, i \in scan_range :
          /\ SlotEvicted(h, i) =>
                 /\ lock = "none"
                 /\ \E t \in Threads :
                        /\ call[t].host = h /\ Holding(t) /\ client_info[t] = i
                        /\ attempts'[t] \in {Append(attempts[t], "stale"),
                                             Append(attempts[t], "no session")}
                 /\ DOMAIN hosts'[h].slots = DOMAIN hosts[h].slots \ {i}
                 /\ \A j \in DOMAIN hosts'[h].slots :
                        hosts'[h].slots[j] = hosts[h].slots[j]
                 /\ sessions' = sessions
          /\ SlotCreated(h, i) =>
                 /\ hosts'[h].slots[i] = NewSlot
                 /\ \E t \in Threads :
                        /\ call[t].host = h /\ pc'[t] = "create" /\ conn_name'[t] = i
                        /\ \A u \in Threads \ {t} : ~HoldsSlot(u, i)
                 /\ \A j \in DOMAIN hosts[h].slots :
                        hosts'[h].slots[j] = hosts[h].slots[j]
          /\ /\ i \in DOMAIN hosts[h].slots /\ i \in DOMAIN hosts'[h].slots
             /\ hosts'[h].slots[i].client # hosts[h].slots[i].client
             => /\ hosts[h].slots[i] = NewSlot
                /\ hosts'[h].slots[i] = [client |-> Len(sessions) + 1, locked |-> TRUE]
                /\ Len(sessions') = Len(sessions) + 1
                /\ SubSeq(sessions', 1, Len(sessions)) = sessions]_vars

\* The slot of a caller was evicted for an empty output, and the caller has
\* in hand the slot recreated at the same index, bound to a session
\* constructed after the evicted one.
C22_Witness ==
    \E t \in Threads :
        /\ pc[t] = "got" /\ fresh[t]
        /\ LastAttempt(t, "stale")
        /\ DOMAIN hosts[call[t].host].slots = {client_info[t]}
        /\ hosts[call[t].host].slots[client_info[t]].client = Len(sessions)
        /\ stale = {Len(sessions) - 1}

\* C23: the first get_connection for a host registers the pool of the host
\* and slot 0 in one block of the registry lock, the lock of slot 0 held by
\* the caller and no session bound; and as long as a caller is constructing
\* the session of the slot it created, the slot stays as created and no
\* other caller holds it.
C23_FirstSlotOwned ==
    [][/\ \A h \in Hosts :
             ~hosts[h].present /\ hosts'[h].present =>
                 /\ lock = "none"
                 /\ DOMAIN hosts'[h].slots = {0}
                 /\ hosts'[h].slots[0] = [client |-> 0, locked |-> TRUE]
                 /\ \E t \in Threads :
                        /\ call[t].host = h /\ pc[t] = "loop"
                        /\ pc'[t] = "create" /\ conn_name'[t] = 0
       /\ \A t \in Threads :
             pc[t] = "create" =>
                 /\ conn_name[t] \in DOMAIN hosts[call[t].host].slots
                 /\ hosts[call[t].host].slots[conn_name[t]] = [client |-> 0, locked |-> TRUE]
                 /\ \A u \in Threads \ {t} :
                        call[u].host = call[t].host => ~HoldsSlot(u, conn_name[t])]_vars

\* A caller is constructing the session of slot 0 of a pool it has just
\* created, and the scan of the other caller has gone past slot 0.
C23_Witness ==
    \E t \in Threads, u \in Threads :
        /\ pc[t] = "create" /\ conn_name[t] = 0 /\ sessions = <<>>
        /\ DOMAIN hosts[call[t].host].slots = {0}
        /\ call[u].host = call[t].host
        /\ pc[u] = "scan" /\ scan_idx[u] = 1

\* The reads of the handshake up to the k-th, as the text they add up to.
RECURSIVE read_text(_, _)
read_text(reads, k) ==
    IF k = 0 THEN <<>>
    ELSE read_text(reads, k - 1) \o (IF reads[k] = Timeout THEN <<>> ELSE decode(reads[k]))

\* The k-th read shows the prompt, and fewer than n reads before it time out.
PromptWithin(reads, k, n) ==
    /\ reads[k] # Timeout
    /\ debian_findall(last_line(strip(read_text(reads, k)))) # <<>>
    /\ Cardinality({j \in 1..(k - 1) : reads[j] = Timeout}) < n

\* C24: the handshake has a budget of three timed-out reads, and each read
\* that times out within the budget is followed by a bare newline: where the
\* prompt arrives before three reads have timed out the session is Ready,
\* and where the handshake gives up the session is closed.
C24_HandshakeBudget ==
    fn_in.fn = "init_terminal" /\ fn_out.done =>
        /\ (\E k \in 1..Len(fn_in.chunks) : PromptWithin(fn_in.chunks, k, InitRetryLimit))
               => fn_out.kind = "ready" /\ fn_out.detail # <<>>
        /\ fn_out.kind = "closed" => fn_out.detail = <<>>

\* Two reads timed out and the third showed the prompt; the handshake had
\* given up at the second timeout, after one newline, and closed the session.
C24_Witness ==
    /\ fn_in.fn = "init_terminal" /\ fn_out.done
    /\ fn_in.chunks = <<Timeout, Timeout, PromptChunk>>
    /\ fn_out.kind = "closed"
    /\ fn_out.wrote = <<Write("newline", <<"NL">>)>>

\* The device accepted the paging command: its answer ends with the prompt
\* and holds none of the error messages.
PagingAccepted(paging) ==
    /\ Len(paging) > 0
    /\ cisco_xr_findall(last_line(strip(read_text(paging, Len(paging))))) # <<>>
    /\ \A e \in CiscoXRErrorPrompts : ~contains(read_text(paging, Len(paging)), e)

\* C25: when "terminal length 0" is rejected, or its send-cycle ends with no
\* result, the construction of the Cisco XR session fails: the factory
\* returns no session and the transport is closed.
C25_PagingFailureFatal ==
    fn_in.fn = "create_client" /\ fn_out.done /\ ~PagingAccepted(fn_in.paging) =>
        fn_out.kind = "none" /\ fn_out.detail = <<"none">>

\* The device did not answer "terminal length 0", and the factory returned
\* the session, its channel open.
C25_Witness ==
    /\ fn_in.fn = "create_client" /\ fn_out.done
    /\ fn_in.paging = <<>>
    /\ fn_out.kind = "client" /\ fn_out.detail = <<"open">>
    /\ Len(fn_out.wrote) = 1

\* C26: a send-cycle of a Cisco XR or Debian session that ends with the
\* prompt matched returns (False, output) exactly when one of the error
\* messages of the class occurs in the text received since the command was
\* written, and (prompt, output) otherwise; in both cases current_prompt is
\* the prompt the device showed.
C26_RejectedIffMarker ==
    fn_in.fn = "send_marked" /\ fn_out.done /\ fn_out.kind \in {"ok", "rejected"} =>
        /\ fn_out.kind = "rejected"
               <=> \E e \in ErrorPromptsOf(fn_in.vendor) : contains(decode(fn_in.text), e)
        /\ fn_out.prompt = fn_in.prompt

\* An error message that the device did not end with a newline: the cycle
\* returns the prompt, and current_prompt is the whole last line.
C26_Witness ==
    /\ fn_in.fn = "send_marked" /\ fn_out.done
    /\ fn_in.vendor = "debian"
    /\ contains(fn_in.text, <<"DENIED">>)
    /\ fn_out.kind = "ok"
    /\ fn_out.prompt = <<"cat:", "SP", "DENIED", "root", ":~$">>

\* The claim holds when the last line of the response is the prompt alone.
C26_HoldsOnOwnLine ==
    fn_in.fn = "send_marked" /\ fn_out.done /\ fn_out.kind \in {"ok", "rejected"}
        /\ fn_in.text[Len(fn_in.text)] = "NL" =>
        /\ fn_out.kind = "rejected"
               <=> \E e \in ErrorPromptsOf(fn_in.vendor) : contains(decode(fn_in.text), e)
        /\ fn_out.prompt = fn_in.prompt

\* The result map of caller t holds the rejection of a command: the first
\* command of the batch that was not answered was rejected by an error
\* message.
RejectedAt(t, k) ==
    /\ result[t].kind = "map"
    /\ k = FirstFailure(batch[t]) /\ k # 0
    /\ CycleKind(batch[t], k) = "rejected"

\* The run of caller t has returned a result map that holds a rejection, and
\* the slot it used was slot i, bound to session c.
ReturnedRejection(t, n, i, c) ==
    /\ Returned(t) /\ ncalls[t] = n
    /\ ret[t].status = "success"
    /\ \E j \in 1..Len(ret[t].data) : FailedPrefix(ret[t].data[j].value)
    /\ client_info[t] = i
    /\ i \in DOMAIN hosts[call[t].host].slots
    /\ hosts[call[t].host].slots[i].client = c

\* The first get_connection of the n-th run of caller t has returned.
FirstAcquire(t, n) == pc[t] = "got" /\ ncalls[t] = n /\ acquires[t] = 1

\* C27: the rejection of a command is not fatal.  It is reported under the
\* command's key with the prefix "failed: "; the run returns the result map
\* and releases the slot, which stays registered and bound to its session;
\* and the caller's next get_connection returns that slot with that session,
\* no session being constructed.
C27_RejectionKeepsSession ==
    /\ [][\A t \in Threads, k \in 1..MaxCmds :
              pc[t] = "post" /\ RejectedAt(t, k) =>
                  /\ result[t].entries[k].key = <<k - 1, batch[t].commands[k]>>
                  /\ FailedPrefix(result[t].entries[k].value)
                  /\ hosts[call[t].host].slots[client_info[t]].client # 0
                  /\ hosts' = [hosts EXCEPT
                                  ![call[t].host].slots[client_info[t]].locked = FALSE]
                  /\ sessions' = sessions
                  /\ ret'[t] = Success("commands executed", result[t].entries)]_vars
    /\ \A n \in 1..(RunsAgain - 1), i \in scan_range, c \in 1..(RunsAgain * RunRetries) :
          [](ReturnedRejection("t1", n, i, c) =>
                [](FirstAcquire("t1", n + 1) =>
                       /\ client_info["t1"] = i /\ ~fresh["t1"]
                       /\ hosts[call["t1"].host].slots[i] = [client |-> c, locked |-> TRUE]
                       /\ Len(sessions) < RunsAgain * RunRetries))

\* The caller's second run has returned the rejection of its second command
\* and has released slot 0, which is bound to the one session that was ever
\* constructed: the session served both runs, and its channel is open.
C27_Witness ==
    /\ ReturnedRejection("t1", 2, 0, 1)
    /\ Len(ret["t1"].data) = 2 /\ FailedPrefix(ret["t1"].data[2].value)
    /\ acquires["t1"] = 1
    /\ hosts["h1"].slots[0] = [client |-> 1, locked |-> FALSE]
    /\ Len(sessions) = 1 /\ sessions[1].ssh_shell = "open"

\* The device never shows a prompt to this cycle: the channel closes, or a
\* read raises, before a chunk that holds the end of a prompt.
Unanswered(script) ==
    \A i \in 1..Len(script) :
        (contains(script[i], <<":~$">>) \/ contains(script[i], <<"#">>))
            => \E j \in 1..(i - 1) : script[j] \in {<<>>, Timeout}

\* The prompt of the session when the k-th cycle of the batch starts.
PromptBefore(k) ==
    IF k = 1 THEN DevicePrompt(fn_in.vendor) ELSE PromptAfter(fn_in.vendor)

\* C28: when the channel closes or a read raises before the prompt is
\* matched, the cycle leaves current_prompt as it was, and exec_commands
\* gives the command the entry "failed" and writes no further command of the
\* batch.
C28_NoPromptFails ==
    fn_in.fn = "exec_commands" /\ fn_out.done =>
        \A k \in 1..Len(fn_in.command) :
            /\ Unanswered(fn_in.chunks[k])
            /\ \A j \in 1..(k - 1) : ~Unanswered(fn_in.chunks[j])
            => /\ fn_out.kind = "map"
               /\ Len(fn_out.detail) = k
               /\ fn_out.detail[k] = Entry(k - 1, strip(fn_in.command[k]), <<"failed">>)
               /\ CommandWrites(fn_out.wrote) =
                      [i \in 1..k |-> Write("command", strip(fn_in.command[i]) \o <<"NL">>)]
               /\ fn_out.prompt = PromptBefore(k)

\* The first command of two was answered with a new prompt and the channel
\* closed during the second: its entry is "failed" and the session has the
\* prompt of the first.
C28_Witness ==
    /\ fn_in.fn = "exec_commands" /\ fn_out.done
    /\ Len(fn_in.command) = 2
    /\ fn_in.chunks[2] = <<<<"pwd", "CR", "NL">>, <<>>>>
    /\ Len(fn_out.detail) = 2
    /\ fn_out.detail[1].value = <<"ls", "NL", "out">>
    /\ fn_out.detail[2].value = <<"failed">>
    /\ fn_out.prompt = PromptAfter(fn_in.vendor)

\* What is written during the cycle of the k-th command of the batch: the
\* command, then the answers to the dialogs the device opens.
CycleWrites(k) ==
    send_command([ReadySession(fn_in.vendor) EXCEPT !.current_prompt = PromptBefore(k)],
                 strip(fn_in.command[k]), fn_in.chunks[k]).wrote

\* The writes of the cycles k..m, one cycle after the other.
RECURSIVE WritesInTurn(_, _)
WritesInTurn(k, m) ==
    IF k > m THEN <<>> ELSE CycleWrites(k) \o WritesInTurn(k + 1, m)

\* The last cycle of the batch that is started: the first one the device
\* does not answer with a prompt, or the last of the batch.
LastCycle ==
    LET bad == {k \in 1..Len(fn_in.command) : Unanswered(fn_in.chunks[k])}
    IN  IF bad = {} THEN Len(fn_in.command) ELSE CHOOSE k \in bad : \A j \in bad : k <= j

\* C29: the commands of one exec_commands call are written one at a time.
\* What is written to the channel is the writes of the first cycle, then
\* those of the second, and so on: a command is written after every write of
\* the cycle before it (the answers to its dialogs included), and only when
\* that cycle has ended.
C29_OneCommandAtATime ==
    fn_in.fn = "exec_commands" /\ fn_out.done =>
        fn_out.wrote = WritesInTurn(1, LastCycle)

\* The first command opened a dialog, which was answered before the second
\* command was written.
C29_Witness ==
    /\ fn_in.fn = "exec_commands" /\ fn_out.done
    /\ fn_in.vendor = "debian"
    /\ fn_out.wrote = <<Write("command", <<"ls", "NL">>), Write("answer", <<"y", "NL">>),
                        Write("command", <<"pwd", "NL">>)>>

\* C30: _new_terminal of a Cisco XR session ends whatever the device does,
\* and when it has returned current_prompt is not the prompt of a
\* configuration view.
C30_NewTerminalEnds ==
    fn_in.fn = "new_terminal" /\ fn_out.done =>
        /\ fn_out.kind = "returned"
        /\ ~in_config(fn_out.prompt)

\* A session in a configuration view whose device does not answer "end":
\* "end" has been written and the session is in the configuration view as
\* before.
C30_Witness ==
    /\ fn_in.fn = "new_terminal" /\ fn_out.done
    /\ fn_in.prompt = ConfigPrompt /\ fn_in.chunks = <<>>
    /\ fn_out.kind = "hangs"
    /\ fn_out.wrote = <<Write("command", <<"end", "NL">>)>>
    /\ fn_out.prompt = ConfigPrompt

\* When _new_terminal returns, the session is not in a configuration view;
\* and it returns when the device answers an "end" with the plain prompt
\* before it falls silent or closes the channel.
C30_ReturnsAtTopLevel ==
    fn_in.fn = "new_terminal" /\ fn_out.done =>
        /\ fn_out.kind = "returned" => ~in_config(fn_out.prompt)
        /\ fn_out.kind = "returned" <=>
               \/ fn_in.prompt # ConfigPrompt
               \/ \E n \in 1..Len(fn_in.chunks) :
                      /\ fn_in.chunks[n] = <<<<"end", "NL">> \o DevicePrompt("cisco_xr")>>
                      /\ \A j \in 1..(n - 1) : fn_in.chunks[j] # <<<<>>>>

\* C31: the factory constructs no session and returns None when no tag is
\* given and the identification returns nothing (None, also when it raised)
\* or a name without a device class, and when the tag given has no device
\* class: nothing is written to a device and no channel is opened.
C31_NoDefaultVendor ==
    fn_in.fn = "factory" /\ fn_out.done =>
        /\ fn_in.vendor = "" /\ lower(fn_in.identified) \notin VENDOR_CLASS_MAP
               => fn_out.kind = "none" /\ fn_out.detail = <<"none">> /\ fn_out.wrote = <<>>
        /\ fn_in.vendor # "" /\ fn_in.vendor \notin VENDOR_CLASS_MAP
               => fn_out.kind = "none" /\ fn_out.detail = <<"none">> /\ fn_out.wrote = <<>>

\* No tag was given and the host was not identified: the factory returned
\* None.
C31_Witness ==
    /\ fn_in.fn = "factory" /\ fn_out.done
    /\ fn_in.vendor = "" /\ fn_in.identified = ""
    /\ fn_out.kind = "none"

\* What the cycle has received once its i-th read has returned.
RECURSIVE Received(_)
Received(i) == IF i = 0 THEN <<>> ELSE Received(i - 1) \o decode(fn_in.chunks[i])

\* The text ends with the marker, white space aside.
EndsIn(text, marker) ==
    LET s == strip(text) IN
    Len(s) >= Len(marker) /\ SubSeq(s, Len(s) - Len(marker) + 1, Len(s)) = marker

\* The cycle goes on after its i-th read: neither that read nor one before
\* it has shown the prompt.
StillWaiting(i) ==
    \A j \in 1..i : cisco_xr_findall(last_line(strip(Received(j)))) = <<>>

\* What the cycle owes the device after its i-th read.
AnswerDue(i) ==
    IF ~StillWaiting(i) THEN <<>>
    ELSE IF EndsIn(Received(i), <<"]?">>) THEN <<Write("answer", <<"NL">>)>>
    ELSE IF EndsIn(Received(i), <<"yes/no]:">>)
    THEN <<Write("answer", IF fn_in.command \in {<<"exit">>, <<"end">>}
                           THEN <<"no", "NL">> ELSE <<"yes", "NL">>)>>
    ELSE <<>>

RECURSIVE AnswersDue(_)
AnswersDue(i) == IF i = 0 THEN <<>> ELSE AnswersDue(i - 1) \o AnswerDue(i)

\* C32: a cycle of a Cisco XR session writes the command, and after it
\* nothing but the answers to the dialogs: while no prompt has been matched,
\* received text that ends in "yes/no]:" is answered "no" when the command is
\* "exit" or "end" and "yes" otherwise, and received text that ends in "]?"
\* is answered with a newline.
C32_DialogAnswers ==
    fn_in.fn = "send_dialog" /\ fn_out.done =>
        fn_out.wrote = <<Write("command", fn_in.command \o <<"NL">>)>>
                           \o AnswersDue(Len(fn_in.chunks))

\* "end" met a question that ends in "yes/no]:" and was answered "no"; the
\* prompt followed and nothing else was written.
C32_Witness ==
    /\ fn_in.fn = "send_dialog" /\ fn_out.done
    /\ fn_in.command = <<"end">>
    /\ fn_out.kind = "ok"
    /\ fn_out.wrote = <<Write("command", <<"end", "NL">>), Write("answer", <<"no", "NL">>)>>

\* The step is the entry of a run of caller t whose commands are no list.
CallsWithNoList(t) ==
    /\ pc[t] = "idle" /\ ncalls'[t] = ncalls[t] + 1
    /\ ~call'[t].commands.is_list

\* C33: a run whose commands are not a list returns "failed" with empty data
\* at once: it has not called get_connection, and the pool and its sessions
\* are as they were.
C33_NoListFails ==
    [][\A t \in Threads :
           CallsWithNoList(t) =>
               /\ pc'[t] = "idle"
               /\ ret'[t].status = "failed" /\ ret'[t].data = <<>>
               /\ acquires'[t] = 0
               /\ hosts' = hosts /\ sessions' = sessions /\ lock' = lock]_vars

\* The caller's second run was given no list and has returned "failed"; the
\* session its first run constructed is in its slot, free.
C33_Witness ==
    /\ Returned("t1") /\ ncalls["t1"] = 2
    /\ ~call["t1"].commands.is_list
    /\ ret["t1"].status = "failed" /\ acquires["t1"] = 0
    /\ hosts["h1"].present /\ hosts["h1"].slots[0] = [client |-> 1, locked |-> FALSE]

\* C34: a registered slot whose lock is free has a session; a slot that
\* get_connection has returned has one too, so execute_command never takes
\* the branch that evicts a slot without a session.
C34_FreeSlotsBound ==
    /\ \A h \in Hosts : \A i \in DOMAIN hosts[h].slots :
           ~hosts[h].slots[i].locked => hosts[h].slots[i].client # 0
    /\ \A t \in Threads :
           /\ pc[t] = "got" => hosts[call[t].host].slots[client_info[t]].client # 0
           /\ \A k \in 1..Len(attempts[t]) : attempts[t][k] # "no session"

\* A construction has failed and left its slot without a session, locked,
\* while another slot of the host is free and has its session.
C34_Witness ==
    \E i \in scan_range, j \in scan_range :
        /\ i \in DOMAIN hosts["h1"].slots /\ j \in DOMAIN hosts["h1"].slots
        /\ hosts["h1"].slots[i] = NewSlot
        /\ ~hosts["h1"].slots[j].locked /\ hosts["h1"].slots[j].client # 0
        /\ \A t \in Threads : pc[t] \in {"idle", "loop"}

\* C35: the loop of _init_terminal ends whatever the transport does: the
\* handshake leaves the session Ready, with its prompt, or closed.
C35_HandshakeEnds ==
    fn_in.fn \in {"init_terminal", "init_closing"} /\ fn_out.done =>
        \/ fn_out.kind = "ready" /\ fn_out.prompt # <<>>
        \/ fn_out.kind = "closed" /\ fn_out.prompt = <<>>

\* The channel closed after the banner: the read returned b"", no newline
\* was written, and the loop reads on.
C35_Witness ==
    /\ fn_in.fn = "init_closing" /\ fn_out.done
    /\ fn_in.chunks = <<<<"motd", "NL">>, <<>>>>
    /\ fn_out.kind = "hangs"
    /\ fn_out.wrote = <<>>

\* While the channel stays open the loop ends: after reads that return text
\* or time out, the session is Ready or closed.
C35_EndsOnOpenChannel ==
    fn_in.fn = "init_terminal" /\ fn_out.done =>
        \/ fn_out.kind = "ready" /\ fn_out.prompt # <<>>
        \/ fn_out.kind = "closed" /\ fn_out.prompt = <<>>

\* The result map of caller t holds a cycle that ended with no result: the
\* first command of the batch that was not answered met a closed channel or
\* a read that raised.
NoResultAt(t, k) ==
    /\ result[t].kind = "map"
    /\ k = FirstFailure(batch[t]) /\ k # 0
    /\ CycleKind(batch[t], k) = "none"

\* C36: after a batch in which a cycle ended with no result, the run evicts
\* the slot of the session, and get_connection never returns a session whose
\* channel has closed.
C36_FailedSessionEvicted ==
    /\ [][\A t \in Threads, k \in 1..MaxCmds :
              pc[t] = "post" /\ NoResultAt(t, k) => SlotEvicted(call[t].host, client_info[t])]_vars
    /\ [](\A t \in Threads :
              pc[t] = "got" /\ hosts[call[t].host].slots[client_info[t]].client # 0 =>
                  sessions[hosts[call[t].host].slots[client_info[t]].client].ssh_shell # "closed")

\* The caller's second run has been handed the session of its first run,
\* whose channel the device closed during the first run.
C36_Witness ==
    /\ pc["t1"] = "got" /\ ncalls["t1"] = 2 /\ ~fresh["t1"]
    /\ Len(sessions) = 1 /\ sessions[1].ssh_shell = "closed"
    /\ hosts["h1"].slots[client_info["t1"]] = [client |-> 1, locked |-> TRUE]

\* The session bound to the slot that caller t holds.
HeldSession(t) == sessions[hosts[call[t].host].slots[client_info[t]].client]

\* C37: whenever get_connection has handed a session to a run that names a
\* supported vendor tag, that session was constructed by the device class
\* registered for the tag, also when the slot was reused.
C37_SessionOfNamedVendor ==
    \A t \in Threads :
        /\ pc[t] = "got"
        /\ hosts[call[t].host].slots[client_info[t]].client # 0
        /\ call[t].vendor \in VENDOR_CLASS_MAP
        => HeldSession(t).vendor = call[t].vendor

\* The caller's second run names cisco_xr and has been handed the Debian
\* session that its first run constructed.
C37_Witness ==
    /\ pc["t1"] = "got" /\ ncalls["t1"] = 2 /\ ~fresh["t1"]
    /\ call["t1"].vendor = "cisco_xr"
    /\ hosts["h1"].slots[client_info["t1"]].client # 0
    /\ HeldSession("t1").vendor = "debian"

\* A session constructed during the run itself is of the class registered
\* for the tag the run names.
C37_FreshSessionOfNamedVendor ==
    \A t \in Threads :
        /\ pc[t] = "got" /\ fresh[t]
        /\ hosts[call[t].host].slots[client_info[t]].client # 0
        /\ call[t].vendor \in VENDOR_CLASS_MAP
        => HeldSession(t).vendor = call[t].vendor

\* The Debian cycle goes on after its i-th read: neither that read nor one
\* before it has shown the prompt.
ConfirmWaiting(i) ==
    \A j \in 1..i : debian_findall(last_line(strip(Received(j)))) = <<>>

\* The reads of the cycle in which the device sent a confirmation marker.
MarkersSent ==
    {j \in 1..Len(fn_in.chunks) :
         ConfirmWaiting(j - 1) /\ contains(fn_in.chunks[j], <<"[Y/N]">>)}

\* The positions of the answers among the writes of the cycle.
AnswersSent == {k \in 1..Len(fn_out.wrote) : fn_out.wrote[k].site = "answer"}

\* C38: in one cycle of a Debian session each confirmation marker the device
\* sends is answered at most once: the cycle writes no more answers than the
\* device has sent markers.
C38_AnsweredAtMostOnce ==
    fn_in.fn = "send_confirm" /\ fn_out.done =>
        Cardinality(AnswersSent) <= Cardinality(MarkersSent)

\* The device asked once, sent a line without a marker and then the prompt;
\* the cycle wrote the command and the answer "y" twice.
C38_Witness ==
    /\ fn_in.fn = "send_confirm" /\ fn_out.done
    /\ fn_in.command = <<"rm">>
    /\ fn_in.chunks = <<<<"sure", "SP", "[Y/N]">>, <<"wait", "NL">>,
                        <<"done", "NL">> \o PromptChunk>>
    /\ fn_out.kind = "ok"
    /\ fn_out.wrote = <<Write("command", <<"rm", "NL">>),
                        Write("answer", <<"y", "NL">>),
                        Write("answer", <<"y", "NL">>)>>

\* The cycle writes one answer after every read that leaves it waiting with
\* a marker anywhere in the text received so far.
C38_AnsweredPerRead ==
    fn_in.fn = "send_confirm" /\ fn_out.done =>
        Cardinality(AnswersSent)
            = Cardinality({j \in 1..Len(fn_in.chunks) :
                              ConfirmWaiting(j) /\ contains(Received(j), <<"[Y/N]">>)})

\* C39: run_ssh_command passes the caller's tag on only when it is a key of
\* VENDOR_CLASS_MAP, and the session is then of that class; with any other
\* tag, an unsupported one included, the class is the one the identification
\* of the host names, as with no tag at all, and the call obtains no session
\* only when the identification names no class.
C39_UnsupportedTagAsAbsent ==
    fn_in.fn = "run_vendor" /\ fn_out.done =>
        IF fn_in.vendor \in VENDOR_CLASS_MAP
        THEN fn_out.kind = "client" /\ fn_out.detail = <<fn_in.vendor>>
        ELSE IF lower(fn_in.identified) \in VENDOR_CLASS_MAP
        THEN fn_out.kind = "client" /\ fn_out.detail = <<lower(fn_in.identified)>>
        ELSE fn_out.kind = "none" /\ fn_out.wrote = <<>>

\* The caller named a vendor without a device class, the host was identified
\* as Debian, and the call obtained a Debian session.
C39_Witness ==
    /\ fn_in.fn = "run_vendor" /\ fn_out.done
    /\ fn_in.vendor = "nokia" /\ fn_in.identified = "debian"
    /\ fn_out.kind = "client" /\ fn_out.detail = <<"debian">>
    /\ fn_out.prompt = <<"u", ":~$">>


====
